---- MODULE Spec2Model ----
(***************************************************************************)
(* The reconciler of prombench: K8s.ResourceApply / K8s.ResourceDelete and *)
(* the per-kind handlers of src/unnamed/part_001, run against a remote     *)
(* cluster API whose answers are nondeterministic.  One step of the model  *)
(* is one API call of a handler (List, Update, Create, Get, Delete) or one *)
(* step of the dispatch loop.                                              *)
(***************************************************************************)
EXTENDS Integers, Sequences, FiniteSets, TLC

VARIABLES
    deployments,  \* []Resource handed to ResourceApply / ResourceDelete
    mode,         \* "apply" (ResourceApply) or "delete" (ResourceDelete)
    run,          \* 1 or 2: the command is invoked twice on the same files
    di, ri,       \* position of the two nested range loops (1-based)
    pc,           \* where the control is
    req,          \* the handler's req (the resource after namespace defaulting)
    listed,       \* names of list.Items, the answer of the handler's List
    exists,       \* the handler's exists flag
    tries,        \* Update attempts made by retry.RetryOnConflict
    attempt,      \* predicate calls made by provider.RetryUntilTrue
    budget,       \* retryCount handed to provider.RetryUntilTrue
    polled,       \* what the predicate answered, call by call, in this poll
    calls,        \* API calls issued by the current (or last) handler
    events,       \* "resource created/updated/deleted" lines of that handler
    answer,       \* what the remote side answered to the handler's last call
    logs,         \* per run: one record per handler that returned
    ret,          \* what ResourceApply / ResourceDelete returned
    cluster,      \* remote state: the objects that exist
    terminating,  \* remote state: namespaces being torn down
    initial,      \* remote state before the first run
    templates,    \* the deployment files as read: name and template text
    bindings,     \* DeploymentVars: the values of the template variables
    contents,     \* the files rendered so far: name and content
    fi,           \* position of the loop over the files in DeploymentsParse
    si,           \* position of the loop over the sections of a file
    paths,        \* c.DeploymentFiles: the paths named on the command line
    fileList,     \* fileList, the files collected from the paths so far
    ci,           \* position of the loop over c.DeploymentFiles
    event,        \* the extractor's input: event.json and what it holds
    regex,        \* the extractor's argument: the pattern
    arglist,      \* groups, the submatches and the number handed to writeArgs
    written,      \* the ARG_ files written so far: name and data
    posted,       \* the comments posted on the pull request
    status,       \* the exit status of the extractor (-1 while it runs)
    wi            \* position of the loop of writeArgs

vars == <<deployments, mode, run, di, ri, pc, req, listed, exists, tries,
          attempt, budget, polled, calls, events, answer, logs, ret, cluster,
          terminating, initial, templates, bindings, contents, fi, si,
          paths, fileList, ci, event, regex, arglist, written, posted,
          status, wi>>

\* what DeploymentsParse reads and builds; ResourceApply and ResourceDelete
\* do not touch it
parse == <<templates, bindings, contents, fi, si>>

\* what the collection of the files reads and builds; nothing after it
\* touches it
collect == <<paths, fileList, ci>>

\* what the comment-argument extractor reads and writes; it is a program
\* of its own
extract == <<event, regex, arglist, written, posted, status, wi>>

\* no event has been read
NoEvent == [readable |-> FALSE, parsable |-> FALSE, association |-> "nil",
            body |-> <<>>, hasIssue |-> FALSE, number |-> 0]

\* the extractor is not run
ExtractIdle ==
    /\ event = NoEvent
    /\ regex = [head |-> "", groups |-> 0]
    /\ arglist = <<>>
    /\ written = <<>>
    /\ posted = <<>>
    /\ status = -1
    /\ wi = 0

----------------------------------------------------------------------------
(* Bounds of the model *)

\* resources per invocation
MaxRes == 2

\* provider.GlobalRetryCount: set in package provider, whose file is not
\* among the sources; the handlers only name it.
GlobalRetryCount == 2

\* retry.DefaultRetry.Steps of k8s.io/client-go/util/retry
DefaultRetrySteps == 5

----------------------------------------------------------------------------
(* Decoded resources *)

Res(kind, group, version, namespace, name, replicas, svcType) ==
    [kind |-> kind, group |-> group, version |-> version,
     namespace |-> namespace, name |-> name,
     replicas |-> replicas, svcType |-> svcType]

\* replicas = 0 stands for Spec.Replicas == nil
NsBench    == Res("Namespace", "", "v1", "", "bench", 0, "")
DepLoadgen == Res("Deployment", "apps", "v1", "bench", "loadgen", 3, "")
DepNoNs    == Res("Deployment", "apps", "v1", "", "loadgen", 0, "")
DepBeta    == Res("Deployment", "apps", "v1beta1", "bench", "loadgen", 3, "")
SvcLB      == Res("Service", "", "v1", "bench", "svc", 0, "LoadBalancer")
SvcPlain   == Res("Service", "", "v1", "", "svc", 0, "ClusterIP")
DsExporter == Res("DaemonSet", "apps", "v1", "bench", "exporter", 0, "")
CmPlain    == Res("ConfigMap", "", "v1", "", "cm", 0, "")
PodX       == Res("Pod", "", "v1", "bench", "p", 0, "")
RoleBeta   == Res("Role", "rbac.authorization.k8s.io", "v1beta1", "bench", "r", 0, "")

CrdPlain   == Res("CustomResourceDefinition", "apiextensions.k8s.io", "v1beta1",
                  "", "crd", 0, "")

OtherKinds ==
    { Res("ClusterRole", "rbac.authorization.k8s.io", "v1", "", "cr", 0, ""),
      Res("ClusterRoleBinding", "rbac.authorization.k8s.io", "v1", "", "crb", 0, ""),
      Res("Role", "rbac.authorization.k8s.io", "v1", "bench", "r", 0, ""),
      Res("RoleBinding", "rbac.authorization.k8s.io", "v1", "", "rb", 0, ""),
      Res("ServiceAccount", "", "v1", "bench", "sa", 0, ""),
      Res("Secret", "", "v1", "", "sec", 0, ""),
      Res("PersistentVolumeClaim", "", "v1", "bench", "pvc", 0, ""),
      Res("Ingress", "extensions", "v1beta1", "", "ing", 0, ""),
      Res("CustomResourceDefinition", "apiextensions.k8s.io", "v1beta1", "", "crd", 0, "") }

\* the documents the multi-resource manifests are built from
SeqUniverse == { NsBench, DepLoadgen, CmPlain, PodX, DepBeta }

\* the documents applied on their own: every kind of the table
SingleUniverse ==
    SeqUniverse \cup OtherKinds \cup { DepNoNs, SvcLB, SvcPlain, DsExporter, RoleBeta }

\* strings.ToLower on the kind names the decoder yields
LowerTable ==
    [ Namespace |-> "namespace", Deployment |-> "deployment",
      DaemonSet |-> "daemonset", Service |-> "service",
      ServiceAccount |-> "serviceaccount", ConfigMap |-> "configmap",
      Secret |-> "secret", PersistentVolumeClaim |-> "persistentvolumeclaim",
      Role |-> "role", RoleBinding |-> "rolebinding",
      ClusterRole |-> "clusterrole", ClusterRoleBinding |-> "clusterrolebinding",
      Ingress |-> "ingress",
      CustomResourceDefinition |-> "customresourcedefinition",
      Pod |-> "pod" ]

ToLower(s) == LowerTable[s]

----------------------------------------------------------------------------
(* The handlers, one row per case of the dispatch switch.                  *)
(*   type:       the Go type the handler asserts, as <<group, version, kind>> *)
(*   version:    the case of the handler's version switch                  *)
(*   namespaced: the client is built with req.Namespace                    *)
(*   defaultsNs: the handler sets an empty req.Namespace to "default"      *)

H(group, version, kind, namespaced, defaultsNs) ==
    [type |-> <<group, version, kind>>, version |-> version,
     namespaced |-> namespaced, defaultsNs |-> defaultsNs]

Rbac == "rbac.authorization.k8s.io"

HandlerTable ==
    [ clusterrole              |-> H(Rbac, "v1", "ClusterRole", FALSE, FALSE),
      clusterrolebinding       |-> H(Rbac, "v1", "ClusterRoleBinding", FALSE, FALSE),
      configmap                |-> H("", "v1", "ConfigMap", TRUE, TRUE),
      daemonset                |-> H("apps", "v1", "DaemonSet", TRUE, TRUE),
      deployment               |-> H("apps", "v1", "Deployment", TRUE, TRUE),
      ingress                  |-> H("extensions", "v1beta1", "Ingress", TRUE, TRUE),
      namespace                |-> H("", "v1", "Namespace", FALSE, FALSE),
      role                     |-> H(Rbac, "v1", "Role", TRUE, TRUE),
      rolebinding              |-> H(Rbac, "v1", "RoleBinding", TRUE, TRUE),
      service                  |-> H("", "v1", "Service", TRUE, TRUE),
      serviceaccount           |-> H("", "v1", "ServiceAccount", TRUE, TRUE),
      secret                   |-> H("", "v1", "Secret", TRUE, TRUE),
      persistentvolumeclaim    |-> H("", "v1", "PersistentVolumeClaim", TRUE, TRUE),
      customresourcedefinition |-> H("apiextensions.k8s.io", "v1beta1",
                                     "CustomResourceDefinition", FALSE, TRUE) ]

\* a switch without the case "ingress"
SupportedKinds_NoIngress == DOMAIN HandlerTable \ {"ingress"}

\* the cases of the switch in ResourceApply and ResourceDelete
SupportedKinds == DOMAIN HandlerTable

\* the Go type the decoder builds for a document
GoType(resource) == <<resource.group, resource.version, resource.kind>>

\* req := resource.(*T): succeeds only for the very type T
TypeAssertionHolds(resource, kind) == GoType(resource) = HandlerTable[kind].type

\* a handler that leaves the namespace as the document has it
DefaultNamespace_Keep(resource, kind) == resource

\* if len(req.Namespace) == 0 { req.Namespace = "default" }
DefaultNamespace(resource, kind) ==
    IF HandlerTable[kind].defaultsNs /\ resource.namespace = ""
    THEN [resource EXCEPT !.namespace = "default"]
    ELSE resource

\* the namespace the handler's client is built with ("" for a cluster-scoped one)
ClientNamespace(r, kind) ==
    IF HandlerTable[kind].namespaced THEN r.namespace ELSE ""

\* a client built for another namespace than the resource's
Target_Elsewhere(r) ==
    LET kind == ToLower(r.kind)
    IN  [kind |-> kind,
         namespace |-> IF HandlerTable[kind].namespaced THEN "elsewhere" ELSE "",
         name |-> r.name]

\* the remote object a handler addresses
Target(r) ==
    LET kind == ToLower(r.kind)
    IN  [kind |-> kind, namespace |-> ClientNamespace(r, kind), name |-> r.name]

Call(op, r, name, policy) ==
    LET kind == ToLower(r.kind)
    IN  [op |-> op, kind |-> kind, namespace |-> ClientNamespace(r, kind),
         name |-> name, policy |-> policy]

----------------------------------------------------------------------------
(* Positions of the two range loops *)

\* a loop that walks a file's documents from the last to the first
CurrentResource_Reversed ==
    deployments[di].Objects[Len(deployments[di].Objects) - ri + 1]

\* resource, the variable of the inner range loop
CurrentResource == deployments[di].Objects[ri]

\* the loop variables after the body ran for (d, r)
NextPosition(d, r) ==
    IF r < Len(deployments[d].Objects) THEN <<d, r + 1>> ELSE <<d + 1, 1>>

\* if err != nil { log.Printf("error applying ...") }: the handler's result
\* is logged and the loop goes on
Return(e) ==
    /\ logs' = [logs EXCEPT ![run] =
                   Append(@, [pos |-> <<di, ri>>, res |-> CurrentResource,
                              events |-> events', err |-> e])]
    /\ di' = NextPosition(di, ri)[1]
    /\ ri' = NextPosition(di, ri)[2]
    /\ pc' = "loop"

----------------------------------------------------------------------------
(* The remote API (k8s.io/client-go), as far as the handlers use it *)

\* the greatest replica count the remote side reports
MaxAvailable == 4

NamespaceObject(name) == [kind |-> "namespace", namespace |-> "", name |-> name]

\* a namespaced object can be created only in a namespace that exists and
\* is not being torn down
NamespaceReady(ns) ==
    \/ ns \in {"", "default"}
    \/ NamespaceObject(ns) \in cluster \ terminating

\* a List that answers with the objects of every namespace
ListItems_AllNamespaces(kind, namespace) ==
    { o \in cluster : o.kind = kind }

\* client.List(ListOptions{}): the objects of the client's collection
ListItems(kind, namespace) ==
    { o \in cluster : o.kind = kind /\ o.namespace = namespace }

GetError(e) == [err |-> e, available |-> 0, unavailable |-> 0,
                svcType |-> "", lbIngress |-> 0]

\* the handler has not called the remote side yet
NoAnswer == GetError("none")

\* what client.Get(req.Name) may answer
GetResults(r) ==
    LET kind == ToLower(r.kind)
    IN  {GetError("other")} \cup
        IF Target(r) \notin cluster THEN {GetError("notfound")}
        ELSE CASE kind = "deployment" ->
                    { [GetError("nil") EXCEPT !.available = a] : a \in 0..MaxAvailable }
               [] kind = "daemonset" ->
                    { [GetError("nil") EXCEPT !.unavailable = u] : u \in 0..1 }
               [] kind = "service" ->
                    { [GetError("nil") EXCEPT !.svcType = r.svcType, !.lbIngress = n] :
                          n \in 0..1 }
               [] OTHER -> {GetError("nil")}

----------------------------------------------------------------------------
(* The readiness predicates *)

Pred(ready, err) == [ready |-> ready, err |-> err]

\* a predicate that takes a load balancer without address for ready
serviceExists_Blind(r, g) ==
    IF r.version # "v1" THEN Pred(FALSE, "unknown_version")
    ELSE IF g.err # "nil" THEN Pred(FALSE, "get")
    ELSE Pred(TRUE, "nil")

serviceExists(r, g) ==
    IF r.version # "v1" THEN Pred(FALSE, "unknown_version")
    ELSE IF g.err # "nil" THEN Pred(FALSE, "get")
    ELSE IF g.svcType = "LoadBalancer" THEN Pred(g.lbIngress > 0, "nil")
    ELSE Pred(TRUE, "nil")

\* a predicate satisfied by at least the desired number of replicas
deploymentReady_AtLeast(r, g) ==
    IF r.version # "v1" THEN Pred(FALSE, "unknown_version")
    ELSE IF g.err # "nil" THEN Pred(FALSE, "get")
    ELSE LET replicas == IF r.replicas # 0 THEN r.replicas ELSE 1
         IN  Pred(g.available >= replicas, "nil")

deploymentReady(r, g) ==
    IF r.version # "v1" THEN Pred(FALSE, "unknown_version")
    ELSE IF g.err # "nil" THEN Pred(FALSE, "get")
    ELSE LET replicas == IF r.replicas # 0 THEN r.replicas ELSE 1
         IN  Pred(g.available = replicas, "nil")

daemonsetReady(r, g) ==
    IF r.version # "v1" THEN Pred(FALSE, "unknown_version")
    ELSE IF g.err # "nil" THEN Pred(FALSE, "get")
    ELSE Pred(g.unavailable = 0, "nil")

\* a predicate for which NotFound is an error like any other
namespaceDeleted_NotFoundIsError(r, g) ==
    IF r.version # "v1" THEN Pred(FALSE, "unknown_version")
    ELSE IF g.err # "nil" THEN Pred(FALSE, "get")
    ELSE Pred(FALSE, "nil")

namespaceDeleted(r, g) ==
    IF r.version # "v1" THEN Pred(FALSE, "unknown_version")
    ELSE IF g.err = "notfound" THEN Pred(TRUE, "nil")
    ELSE IF g.err # "nil" THEN Pred(FALSE, "get")
    ELSE Pred(FALSE, "nil")

\* the closure handed to provider.RetryUntilTrue
Predicate(r, g) ==
    LET kind == ToLower(r.kind)
    IN  CASE kind = "deployment" -> deploymentReady(r, g)
          [] kind = "service"    -> serviceExists(r, g)
          [] kind = "namespace"  -> namespaceDeleted(r, g)

----------------------------------------------------------------------------
(* The retry helpers *)

\* a poller that calls fn once more than retryCount allows
RetryUntilTrue_OneMore(n, retryCount, p) ==
    IF p.err # "nil" THEN "error"
    ELSE IF p.ready THEN "ok"
    ELSE IF n <= retryCount THEN "again"
    ELSE "timeout"

\* provider.RetryUntilTrue(name, retryCount, fn) after the n-th call of fn
\* answered p: return nil, return the error, call again, or give up
RetryUntilTrue(n, retryCount, p) ==
    IF p.err # "nil" THEN "error"
    ELSE IF p.ready THEN "ok"
    ELSE IF n < retryCount THEN "again"
    ELSE "timeout"

\* a retry that goes on after every error, conflict or not
RetryOnConflict_AnyError(n, e) ==
    IF e = "nil" THEN "ok"
    ELSE IF n < DefaultRetrySteps THEN "again"
    ELSE "error"

\* a retry that never gives up on a conflict
RetryOnConflict_Forever(n, e) ==
    IF e = "nil" THEN "ok"
    ELSE IF e # "conflict" THEN "error"
    ELSE "again"

\* retry.RetryOnConflict(retry.DefaultRetry, fn) after the n-th call of fn
\* answered e ("nil", "conflict" or another error)
RetryOnConflict(n, e) ==
    IF e = "nil" THEN "ok"
    ELSE IF e # "conflict" THEN "error"
    ELSE IF n < DefaultRetrySteps THEN "again"
    ELSE "error"

----------------------------------------------------------------------------
(* What a handler does after its Update or Create succeeded *)

\* every apply handler: log "resource updated" and return nil
AfterUpdate(kind) == "return"

\* deploymentApply and serviceApply end in provider.RetryUntilTrue,
\* daemonSetApply calls c.daemonsetReady once, the others return nil
AfterCreate(kind) ==
    CASE kind \in {"deployment", "service"} -> "poll"
      [] kind = "daemonset" -> "dsready"
      [] OTHER -> "return"

\* a delete that leaves the dependents of all but the namespaces to the
\* garbage collector
PropagationPolicy_Background(kind) ==
    IF kind = "namespace" THEN "Foreground" ELSE "Background"

\* delPolicy := apiMetaV1.DeletePropagationForeground, in every delete handler
PropagationPolicy(kind) == "Foreground"

\* a deploymentDelete that waits like namespaceDelete
AfterDelete_PollDeployment(kind) ==
    IF kind \in {"namespace", "deployment"} THEN "poll" ELSE "return"

\* namespaceDelete polls namespaceDeleted, the others return nil
AfterDelete(kind) == IF kind = "namespace" THEN "poll" ELSE "return"

\* apply handlers that poll with the budget of namespaceDelete
ApplyRetryCount_Double == 2 * GlobalRetryCount

\* the retryCount of deploymentApply and serviceApply
ApplyRetryCount == GlobalRetryCount

\* a namespaceDelete that polls with the budget of the apply handlers
DeleteRetryCount_Single == GlobalRetryCount

\* the retryCount of namespaceDelete
DeleteRetryCount == 2 * GlobalRetryCount

\* an existence test that never finds the item
Exists_Never(items, name) == FALSE

\* exists: some listed item carries the name of req
Exists(items, name) == \E l \in items : l.name = name

\* the update branch logging the line of the create branch
UpdatedEvent_Created == "created"

\* log.Printf("resource updated - kind: %v, name: %v", ...)
UpdatedEvent == "updated"

\* log.Printf("resource created - kind: %v, name: %v", ...)
CreatedEvent == "created"

\* return nil, the last statement of ResourceApply and ResourceDelete
ResourceResult(lastErr) == "nil"

----------------------------------------------------------------------------
(* Inputs: the decoded manifests, the command and the cluster it meets *)

Batch(file, objects) == [FileName |-> file, Objects |-> objects]

FileNames == <<"f1", "f2", "f3", "f4">>

\* every document in one file
OneFile(s) == <<Batch(FileNames[1], s)>>

\* one file per document
FilePerDocument(s) == [i \in 1..Len(s) |-> Batch(FileNames[i], <<s[i]>>)]

Manifests ==
    { OneFile(<<r>>) : r \in SingleUniverse }
    \cup UNION { { OneFile(s), FilePerDocument(s) } :
                     s \in UNION { [1..k -> SeqUniverse] : k \in 2..MaxRes } }

\* the documents of a manifest, in file order then document order
RECURSIVE Flatten(_)
Flatten(ds) ==
    IF ds = <<>> THEN <<>> ELSE ds[1].Objects \o Flatten(Tail(ds))

Range(s) == { s[i] : i \in 1..Len(s) }

WellTyped(r) ==
    /\ ToLower(r.kind) \in SupportedKinds
    /\ TypeAssertionHolds(r, ToLower(r.kind))

\* the objects the handlers of a manifest address
Targets(ds) ==
    { Target(DefaultNamespace(r, ToLower(r.kind))) :
          r \in { x \in Range(Flatten(ds)) : WellTyped(x) } }

\* objects named like those of a manifest, in a namespace of their own
Namesakes(ds) ==
    { [t EXCEPT !.namespace = "elsewhere"] :
          t \in { x \in Targets(ds) : x.namespace # "" } }

\* an object of the benchmark's namespace that no manifest names
Bystander == [kind |-> "configmap", namespace |-> "bench", name |-> "bystander"]

\* the cluster before the first run: empty, holding only the namespace of
\* the benchmark, holding every object of the manifest and one more in the
\* benchmark's namespace, or holding only namesakes of them in another
\* namespace
InitialClusters(ds) ==
    { {}, {NamespaceObject("bench")},
      Targets(ds) \cup {NamespaceObject("bench"), Bystander},
      Namesakes(ds) \cup {NamespaceObject("elsewhere")} }

Init ==
    /\ ExtractIdle
    /\ deployments \in Manifests
    /\ mode \in {"apply", "delete"}
    /\ cluster \in InitialClusters(deployments)
    /\ initial = cluster
    /\ terminating = {}
    /\ run = 1
    /\ di = 1
    /\ ri = 1
    /\ pc = "loop"
    /\ req = NsBench
    /\ listed = {}
    /\ exists = FALSE
    /\ tries = 0
    /\ attempt = 0
    /\ budget = 0
    /\ polled = <<>>
    /\ calls = <<>>
    /\ events = <<>>
    /\ answer = NoAnswer
    /\ logs = <<(<<>>), (<<>>)>>
    /\ ret = "none"
    /\ templates = <<>>
    /\ bindings = <<>>
    /\ contents = <<>>
    /\ fi = 0
    /\ si = 0
    /\ paths = <<>>
    /\ fileList = <<>>
    /\ ci = 0

----------------------------------------------------------------------------
(* The dispatch loop and the handlers *)

\* what follows a successful Update, Create or Delete of a handler
Continue(next) ==
    CASE next = "return" ->
            /\ Return("nil")
            /\ UNCHANGED <<attempt, budget, polled>>
      [] next = "poll" ->
            /\ pc' = "poll"
            /\ attempt' = 0
            /\ polled' = <<>>
            /\ budget' = IF mode = "apply" THEN ApplyRetryCount ELSE DeleteRetryCount
            /\ UNCHANGED <<logs, di, ri>>
      [] next = "dsready" ->
            /\ pc' = "dsready"
            /\ UNCHANGED <<attempt, budget, polled, logs, di, ri>>

\* one iteration of the inner loop up to the handler's first API call: the
\* switch on the lower-cased kind, the handler's type assertion, its
\* namespace default and its switch on the version
DispatchOn(kinds) ==
    /\ pc = "loop"
    /\ di <= Len(deployments)
    /\ calls' = <<>>
    /\ events' = <<>>
    /\ answer' = NoAnswer
    /\ listed' = {}
    /\ exists' = FALSE
    /\ tries' = 0
    /\ attempt' = 0
    /\ budget' = 0
    /\ polled' = <<>>
    /\ LET resource == CurrentResource
           kind == ToLower(resource.kind)
       IN  IF kind \notin kinds
           THEN /\ req' = resource
                /\ Return("unimplemented")
           ELSE IF ~TypeAssertionHolds(resource, kind)
           THEN /\ req' = resource
                /\ pc' = "panic"
                /\ UNCHANGED <<logs, di, ri>>
           ELSE /\ req' = DefaultNamespace(resource, kind)
                /\ IF resource.version # HandlerTable[kind].version
                   THEN Return("unknown_version")
                   ELSE /\ pc' = IF mode = "apply" THEN "list" ELSE "delete"
                        /\ UNCHANGED <<logs, di, ri>>
    /\ UNCHANGED <<deployments, mode, run, ret, cluster, terminating, initial>>
    /\ UNCHANGED parse
    /\ UNCHANGED collect
    /\ UNCHANGED extract

\* the switch of ResourceApply and ResourceDelete
Dispatch == DispatchOn(SupportedKinds)

\* what client.List may answer: the list, or an error and an empty list
ListResults == {"nil", "other"}

\* a handler that does not look at the error of List
ListFailed_Ignored(e) == FALSE

\* if err != nil { return errors.Wrapf(err, "error listing resource ...") }
ListFailed(e) == e # "nil"

\* list, err := client.List(...) and the existence test
ListCall ==
    /\ pc = "list"
    /\ calls' = Append(calls, Call("List", req, "", ""))
    /\ UNCHANGED events
    /\ \E e \in ListResults :
          /\ answer' = GetError(e)
          /\ IF ListFailed(e)
             THEN /\ Return("list")
                  /\ UNCHANGED <<listed, exists>>
             ELSE LET items == IF e = "nil"
                               THEN ListItems(ToLower(req.kind),
                                              ClientNamespace(req, ToLower(req.kind)))
                               ELSE {}
                  IN  /\ listed' = { l.name : l \in items }
                      /\ exists' = Exists(items, req.name)
                      /\ pc' = IF exists' THEN "update" ELSE "create"
                      /\ UNCHANGED <<logs, di, ri>>
    /\ UNCHANGED <<deployments, mode, run, req, tries, attempt, budget, polled,
                   ret, cluster, terminating, initial>>
    /\ UNCHANGED parse
    /\ UNCHANGED collect
    /\ UNCHANGED extract

\* what client.Update(req) may answer: a conflict when the object changed
\* remotely, NotFound when it is gone, any other error, or nil
UpdateResults(r) ==
    {"conflict", "other"}
        \cup (IF Target(r) \in cluster THEN {"nil"} ELSE {"notfound"})

\* one call of client.Update(req) inside retry.RetryOnConflict
UpdateCall ==
    /\ pc = "update"
    /\ calls' = Append(calls, Call("Update", req, req.name, ""))
    /\ tries' = tries + 1
    /\ \E e \in UpdateResults(req) :
          LET o == RetryOnConflict(tries + 1, e)
          IN  /\ answer' = GetError(e)
              /\ CASE o = "ok" ->
                          /\ events' = Append(events, UpdatedEvent)
                          /\ Continue(AfterUpdate(ToLower(req.kind)))
                   [] o = "again" ->
                          /\ UNCHANGED <<events, pc, logs, di, ri, attempt,
                                         budget, polled>>
                   [] o = "error" ->
                          /\ UNCHANGED <<events, attempt, budget, polled>>
                          /\ Return("update")
    /\ UNCHANGED <<deployments, mode, run, req, listed, exists, ret, cluster,
                   terminating, initial>>
    /\ UNCHANGED parse
    /\ UNCHANGED collect
    /\ UNCHANGED extract

\* what client.Create(req) may answer: AlreadyExists when the object is
\* there, any other error, or nil
CreateResults(r) ==
    {"other"}
        \cup (IF Target(r) \in cluster THEN {"exists"} ELSE {})
        \cup (IF Target(r) \notin cluster /\ NamespaceReady(Target(r).namespace)
             THEN {"nil"} ELSE {})

\* client.Create(req)
CreateCall ==
    /\ pc = "create"
    /\ calls' = Append(calls, Call("Create", req, req.name, ""))
    /\ \E e \in CreateResults(req) :
          /\ answer' = GetError(e)
          /\ IF e = "nil"
             THEN /\ cluster' = cluster \cup {Target(req)}
                  /\ events' = Append(events, CreatedEvent)
                  /\ Continue(AfterCreate(ToLower(req.kind)))
             ELSE /\ UNCHANGED <<cluster, events, attempt, budget, polled>>
                  /\ Return("create")
    /\ UNCHANGED <<deployments, mode, run, req, listed, exists, tries, ret,
                   terminating, initial>>
    /\ UNCHANGED parse
    /\ UNCHANGED collect
    /\ UNCHANGED extract

\* what a predicate answered: an error, true or false
Answer(p) == IF p.err # "nil" THEN "error" ELSE IF p.ready THEN "true" ELSE "false"

\* one call of the predicate inside provider.RetryUntilTrue
PollCall ==
    /\ pc = "poll"
    /\ calls' = Append(calls, Call("Get", req, req.name, ""))
    /\ attempt' = attempt + 1
    /\ UNCHANGED events
    /\ \E g \in GetResults(req) :
          LET p == Predicate(req, g)
              o == RetryUntilTrue(attempt + 1, budget, p)
          IN  /\ answer' = g
              /\ polled' = Append(polled, Answer(p))
              /\ CASE o = "ok"      -> Return("nil")
                   [] o = "error"   -> Return(p.err)
                   [] o = "timeout" -> Return("timeout")
                   [] o = "again"   -> UNCHANGED <<pc, logs, di, ri>>
    /\ UNCHANGED <<deployments, mode, run, req, listed, exists, tries, budget,
                   ret, cluster, terminating, initial>>
    /\ UNCHANGED parse
    /\ UNCHANGED collect
    /\ UNCHANGED extract

\* c.daemonsetReady(resource), the last statement but one of daemonSetApply:
\* one Get whose answer is dropped
DaemonsetReadyCall ==
    /\ pc = "dsready"
    /\ calls' = Append(calls, Call("Get", req, req.name, ""))
    /\ UNCHANGED events
    /\ \E g \in GetResults(req) :
          LET p == daemonsetReady(req, g)
          IN  /\ answer' = g
              /\ polled' = Append(polled, Answer(p))
              /\ Return("nil")
    /\ UNCHANGED <<deployments, mode, run, req, listed, exists, tries, attempt,
                   budget, ret, cluster, terminating, initial>>
    /\ UNCHANGED parse
    /\ UNCHANGED collect
    /\ UNCHANGED extract

\* what client.Delete(req.Name, ...) may answer
DeleteResults(r) ==
    {"other"} \cup (IF Target(r) \in cluster THEN {"nil"} ELSE {"notfound"})

\* a handler that passes over NotFound and polls all the same
DeleteFailed_NotFoundIgnored(e) == e \notin {"nil", "notfound"}

\* if err := client.Delete(...); err != nil { return errors.Wrapf(...) }
DeleteFailed(e) == e # "nil"

\* client.Delete(req.Name, &DeleteOptions{PropagationPolicy: Foreground}).
\* The remote side removes an object at once, but a namespace only after
\* its content is gone: until then it is still found.
DeleteCall ==
    /\ pc = "delete"
    /\ calls' = Append(calls, Call("Delete", req, req.name,
                                   PropagationPolicy(ToLower(req.kind))))
    /\ \E e \in DeleteResults(req) :
          /\ answer' = GetError(e)
          /\ IF ~DeleteFailed(e)
             THEN /\ IF ToLower(req.kind) = "namespace"
                     THEN /\ terminating' = terminating \cup {Target(req)}
                          /\ events' = Append(events, "deleting")
                          /\ UNCHANGED cluster
                     ELSE /\ cluster' = cluster \ {Target(req)}
                          /\ events' = Append(events, "deleted")
                          /\ UNCHANGED terminating
                  /\ Continue(AfterDelete(ToLower(req.kind)))
             ELSE /\ UNCHANGED <<cluster, terminating, events, attempt, budget,
                                 polled>>
                  /\ Return("delete")
    /\ UNCHANGED <<deployments, mode, run, req, listed, exists, tries, ret,
                   initial>>
    /\ UNCHANGED parse
    /\ UNCHANGED collect
    /\ UNCHANGED extract

\* the loops are over: return nil
EndRun ==
    /\ pc = "loop"
    /\ di > Len(deployments)
    /\ ret' = ResourceResult(IF logs[run] = <<>> THEN "nil"
                             ELSE logs[run][Len(logs[run])].err)
    /\ pc' = "returned"
    /\ UNCHANGED <<deployments, mode, run, di, ri, req, listed, exists, tries,
                   attempt, budget, polled, calls, events, answer, logs,
                   cluster, terminating, initial>>
    /\ UNCHANGED parse
    /\ UNCHANGED collect
    /\ UNCHANGED extract

\* the same command is run a second time on the same files
NextRun ==
    /\ pc = "returned"
    /\ run = 1
    /\ run' = 2
    /\ di' = 1
    /\ ri' = 1
    /\ pc' = "loop"
    /\ ret' = "none"
    /\ req' = NsBench
    /\ listed' = {}
    /\ exists' = FALSE
    /\ tries' = 0
    /\ attempt' = 0
    /\ budget' = 0
    /\ polled' = <<>>
    /\ calls' = <<>>
    /\ events' = <<>>
    /\ answer' = NoAnswer
    /\ UNCHANGED <<deployments, mode, logs, cluster, terminating, initial>>
    /\ UNCHANGED parse
    /\ UNCHANGED collect
    /\ UNCHANGED extract

\* the remote side finishes the teardown of a namespace: the namespace and
\* what it holds are gone
NamespaceFinalized ==
    /\ pc # "panic"
    /\ \E n \in terminating :
          /\ cluster' = { o \in cluster : o # n /\ o.namespace # n.name }
          /\ terminating' = terminating \ {n}
    /\ UNCHANGED <<deployments, mode, run, di, ri, pc, req, listed, exists,
                   tries, attempt, budget, polled, calls, events, answer, logs,
                   ret, initial>>
    /\ UNCHANGED parse
    /\ UNCHANGED collect
    /\ UNCHANGED extract

Next ==
    \/ Dispatch
    \/ ListCall
    \/ UpdateCall
    \/ CreateCall
    \/ PollCall
    \/ DaemonsetReadyCall
    \/ DeleteCall
    \/ EndRun
    \/ NextRun
    \/ NamespaceFinalized

Spec == Init /\ [][Next]_vars

\* a step of the command itself: the loop is sequential and every API call
\* it waits for returns, so the step that is due is taken
ProgramStep ==
    \/ Dispatch
    \/ ListCall
    \/ UpdateCall
    \/ CreateCall
    \/ PollCall
    \/ DaemonsetReadyCall
    \/ DeleteCall
    \/ EndRun

\* one run of the command and the remote side
FairNext == ProgramStep \/ NamespaceFinalized

\* one run under the assumption that every API call returns; nothing is
\* assumed of the remote teardown of a namespace
FairSpec == Init /\ [][FairNext]_vars /\ WF_vars(ProgramStep)

----------------------------------------------------------------------------
(* DeploymentsParse: the text of the deployment files.                     *)
(* A text is a sequence of tokens: single characters; whole manifest       *)
(* documents ("N", "L", ...), each standing for a text that decodes to one *)
(* object and holds no dash; a long text that is no manifest; and template *)
(* actions ("{{.A}}", "{{normalise .A}}").                                 *)

\* files per invocation
MaxFiles == 2

\* text[:100], the excerpt of the section in the decode error
ExcerptLength == 100

NL == "\n"

\* the documents, by the token that stands for their text
BlockObject ==
    ("N" :> NsBench) @@ ("L" :> DepLoadgen) @@ ("C" :> CmPlain)
        @@ ("D" :> DsExporter) @@ ("P" :> PodX) @@ ("X" :> CrdPlain)

Blocks == DOMAIN BlockObject

\* a text of ExcerptLength bytes or more that the decoder refuses
Garbage == "#"

\* the characters of a value
ValueChars == {"a", "b", "c", ".", "-"}

\* the characters strings.TrimSpace strips
Space == {NL, " "}

\* the template actions: the variable named and the function applied to it
Placeholder ==
    ("{{.A}}" :> [name |-> "A", fn |-> ""])
        @@ ("{{normalise .A}}" :> [name |-> "A", fn |-> "normalise"])
        @@ ("{{.B}}" :> [name |-> "B", fn |-> ""])

\* a replacement of the first dot only
Normalise_First(t) ==
    LET dots == { i \in 1..Len(t) : t[i] = "." }
    IN  [i \in 1..Len(t) |->
            IF i \in dots /\ (\A j \in dots : i <= j) THEN "-" ELSE t[i]]

\* "normalise": strings.Replace(t, ".", "-", -1)
Normalise(t) == [i \in 1..Len(t) |-> IF t[i] = "." THEN "-" ELSE t[i]]

\* a template that prints nothing for a variable without value
MissingKey_Default(name, data) == FALSE

\* Option("missingkey=error"): a variable without value fails the execution
MissingKey(name, data) == name \notin DOMAIN data

\* what a template action prints
Value(action, data) ==
    LET v == IF action.name \in DOMAIN data THEN data[action.name] ELSE <<>>
    IN  IF action.fn = "normalise" THEN Normalise(v) ELSE v

\* t.Execute(fileContentParsed, c.DeploymentVars): the text it writes
RECURSIVE Execute(_, _)
Execute(text, data) ==
    IF text = <<>> THEN <<>>
    ELSE (IF Head(text) \in DOMAIN Placeholder
          THEN Value(Placeholder[Head(text)], data)
          ELSE <<Head(text)>>) \o Execute(Tail(text), data)

\* t.Execute returns an error
ExecuteFails(text, data) ==
    \E i \in 1..Len(text) :
        /\ text[i] \in DOMAIN Placeholder
        /\ MissingKey(Placeholder[text[i]].name, data)

\* separator := "---"
Separator == <<"-", "-", "-">>

\* strings.Index(s, sep), 1-based; 0 when sep does not occur
Index(s, sep) ==
    LET at == { i \in 1..(Len(s) - Len(sep) + 1) :
                    SubSeq(s, i, i + Len(sep) - 1) = sep }
    IN  IF at = {} THEN 0 ELSE CHOOSE i \in at : \A j \in at : i <= j

\* strings.Split(s, sep): cut at every occurrence of sep, from the left
RECURSIVE Split(_, _)
Split(s, sep) ==
    LET i == Index(s, sep)
    IN  IF i = 0 THEN <<s>>
        ELSE <<SubSeq(s, 1, i - 1)>> \o Split(SubSeq(s, i + Len(sep), Len(s)), sep)

\* strings.TrimSpace
TrimSpace(s) ==
    LET keep == { i \in 1..Len(s) : s[i] \notin Space }
    IN  IF keep = {} THEN <<>>
        ELSE SubSeq(s, CHOOSE i \in keep : \A j \in keep : i <= j,
                       CHOOSE i \in keep : \A j \in keep : i >= j)

NonEmpty(text) == text # <<>>

\* the sections of a file that reach the decoder: trimmed and not empty
Texts(content) ==
    LET parts == Split(content, Separator)
    IN  SelectSeq([i \in 1..Len(parts) |-> TrimSpace(parts[i])], NonEmpty)

\* decode([]byte(text), nil, nil) returns an object: the text is one
\* document, its last value possibly drawn out
Decodes(text) ==
    /\ text # <<>>
    /\ text[1] \in Blocks
    /\ \A i \in 2..Len(text) : text[i] \in ValueChars

\* len(text) in bytes
RECURSIVE ByteLen(_)
ByteLen(text) ==
    IF text = <<>> THEN 0
    ELSE (IF Head(text) \in Blocks \cup {Garbage} THEN ExcerptLength ELSE 1)
             + ByteLen(Tail(text))

\* an inner loop that passes over the sections it cannot decode
DecodeSections_SkipBad(texts) ==
    LET good == SelectSeq(texts, Decodes)
    IN  [err |-> "nil", at |-> 0,
         objects |-> [i \in 1..Len(good) |-> BlockObject[good[i][1]]]]

\* the inner loop of DeploymentsParse: the objects of a file, or the
\* section at which decode failed
DecodeSections(texts) ==
    LET bad == { i \in 1..Len(texts) : ~Decodes(texts[i]) }
    IN  IF bad = {}
        THEN [err |-> "nil", at |-> 0,
              objects |-> [i \in 1..Len(texts) |-> BlockObject[texts[i][1]]]]
        ELSE [err |-> "decode", objects |-> <<>>,
              at |-> CHOOSE i \in bad : \A j \in bad : i <= j]

----------------------------------------------------------------------------
(* Inputs of DeploymentsParse *)

\* the deployment files of the directory, in the order of the walk
TemplateUniverse ==
    << <<"N">>,
       <<"C", "{{.A}}">>,
       <<"C", NL, "-", "-", "-", NL, "a">>,
       <<"C", NL, "-", "-", "-", NL, Garbage>>,
       <<"N", NL, "-", "-", "-", NL, "L">>,
       <<"D", "{{normalise .A}}">>,
       <<"C", "-", "-", "-", "-", "-", "a">>,
       <<"P", NL, "-", "-", "-", NL, " ", NL, "-", "-", "-", NL, "C", NL,
         "-", "-", "-", NL>>,
       <<" ", NL, "-", "-", "-", NL>>,
       <<"N", NL, "-", "-", "-", NL, "X">> >>

\* the files of the universe picked by the increasing indices pick
Files(pick) ==
    [i \in 1..Len(pick) |->
        [FileName |-> FileNames[i], Content |-> TemplateUniverse[pick[i]]]]

\* an invocation names up to MaxFiles of the files
TemplateSets ==
    UNION { { Files(pick) :
                  pick \in { q \in [1..k -> 1..Len(TemplateUniverse)] :
                                \A i \in 1..(k - 1) : q[i] < q[i + 1] } } :
            k \in 1..MaxFiles }

\* the values a variable is given
Values ==
    { <<"a", ".", "b", ".", "c">>, <<"a">>, <<".", ".">> }

\* DeploymentVars: variable A with a value, or no variable at all
BindingSets == { <<>> } \cup { ("A" :> v) : v \in Values }

\* the cluster that holds every object of the documents
ParseCluster ==
    { Target(DefaultNamespace(BlockObject[b], ToLower(BlockObject[b].kind))) :
          b \in { x \in Blocks : WellTyped(BlockObject[x]) } }
        \cup { NamespaceObject("bench") }

ParseInit ==
    /\ ExtractIdle
    /\ templates \in TemplateSets
    /\ bindings \in BindingSets
    /\ contents = <<>>
    /\ fi = 1
    /\ si = 1
    /\ deployments = <<>>
    /\ mode \in {"apply", "delete"}
    /\ cluster \in { {}, ParseCluster }
    /\ initial = cluster
    /\ terminating = {}
    /\ run = 1
    /\ di = 1
    /\ ri = 1
    /\ pc = "render"
    /\ req = NsBench
    /\ listed = {}
    /\ exists = FALSE
    /\ tries = 0
    /\ attempt = 0
    /\ budget = 0
    /\ polled = <<>>
    /\ calls = <<>>
    /\ events = <<>>
    /\ answer = NoAnswer
    /\ logs = <<(<<>>), (<<>>)>>
    /\ ret = "none"
    /\ paths = <<>>
    /\ fileList = <<>>
    /\ ci = 0

\* one iteration of the loop over the files: applyTemplateVars.  A failed
\* execution ends the process (log.Fatalf).
RenderFile ==
    /\ pc = "render"
    /\ fi <= Len(templates)
    /\ LET file == templates[fi]
       IN  IF ExecuteFails(file.Content, bindings)
           THEN /\ pc' = "fatal"
                /\ UNCHANGED <<contents, fi>>
           ELSE /\ contents' = Append(contents,
                                      [FileName |-> file.FileName,
                                       Content |-> Execute(file.Content, bindings)])
                /\ IF fi < Len(templates)
                   THEN fi' = fi + 1 /\ pc' = "render"
                   ELSE fi' = 1 /\ pc' = "decode"
    /\ UNCHANGED <<deployments, mode, run, di, ri, req, listed, exists, tries,
                   attempt, budget, polled, calls, events, answer, logs, ret,
                   cluster, terminating, initial, templates, bindings, si>>
    /\ UNCHANGED collect
    /\ UNCHANGED extract

\* one iteration of the loop over the rendered files: split, trim, decode.
\* A section that does not decode ends DeploymentsParse with the error,
\* whose message holds text[:100]: the slice panics on a shorter section.
\* After the last file ResourceApply or ResourceDelete is entered.
DecodeFile ==
    /\ pc = "decode"
    /\ fi <= Len(contents)
    /\ LET file == contents[fi]
           texts == Texts(file.Content)
           d == DecodeSections(texts)
       IN  IF d.err # "nil"
           THEN /\ IF ByteLen(texts[d.at]) < ExcerptLength
                   THEN pc' = "panic" /\ ret' = ret
                   ELSE pc' = "aborted" /\ ret' = "decode"
                /\ UNCHANGED <<deployments, fi>>
           ELSE /\ deployments' =
                       IF Len(d.objects) > 0
                       THEN Append(deployments, Batch(file.FileName, d.objects))
                       ELSE deployments
                /\ fi' = fi + 1
                /\ pc' = IF fi < Len(contents) THEN "decode" ELSE "loop"
                /\ ret' = ret
    /\ UNCHANGED <<mode, run, di, ri, req, listed, exists, tries, attempt,
                   budget, polled, calls, events, answer, logs, cluster,
                   terminating, initial, templates, bindings, contents, si>>
    /\ UNCHANGED collect
    /\ UNCHANGED extract

\* one invocation of the command: the parse, then ResourceApply or
\* ResourceDelete on what it built (a second invocation parses again)
ParseNext ==
    \/ RenderFile
    \/ DecodeFile
    \/ Dispatch
    \/ ListCall
    \/ UpdateCall
    \/ CreateCall
    \/ PollCall
    \/ DaemonsetReadyCall
    \/ DeleteCall
    \/ EndRun
    \/ NamespaceFinalized

ParseSpec == ParseInit /\ [][ParseNext]_vars

----------------------------------------------------------------------------
(* The older reconciler: ResourceApply and ResourceDelete take the rendered *)
(* files and decode each section right before its handler is called.  The   *)
(* handlers are the ones of the later version.  Here deployments records    *)
(* the objects handed to a handler so far, grouped by file.                 *)

\* the cases of the older switch: no "customresourcedefinition"
InlineKinds == SupportedKinds \ {"customresourcedefinition"}

\* the older decoder: the api extensions types are not added to the scheme
InlineDecodes(text) == Decodes(text) /\ BlockObject[text[1]] # CrdPlain

\* a loop that hands the section to the decoder untrimmed
InlineText_Raw(part) == part

\* text = strings.TrimSpace(text)
InlineText(part) == TrimSpace(part)

\* the objects handed over so far and one more, of file name
Taken(ds, name, object) ==
    IF ds # <<>> /\ ds[Len(ds)].FileName = name
    THEN [ds EXCEPT ![Len(ds)].Objects = Append(@, object)]
    ELSE Append(ds, Batch(name, <<object>>))

\* the control is at the head of the loop over the sections
AtSection == pc = "decode" \/ (pc = "loop" /\ di > Len(deployments))

\* one iteration of the loop over strings.Split(content, separator), up to
\* the switch: a blank section is passed over, a section that does not
\* decode ends the command with the error (text[:100] panics on a shorter
\* section), an object goes to the switch.  After the last section the
\* loop over the files moves on.
InlineSection ==
    /\ AtSection
    /\ fi <= Len(contents)
    /\ LET file == contents[fi]
           parts == Split(file.Content, Separator)
       IN  IF si > Len(parts)
           THEN /\ fi' = fi + 1
                /\ si' = 1
                /\ pc' = "decode"
                /\ UNCHANGED <<deployments, di, ri, ret>>
           ELSE LET text == InlineText(parts[si])
                IN  IF text = <<>>
                    THEN /\ si' = si + 1
                         /\ pc' = "decode"
                         /\ UNCHANGED <<fi, deployments, di, ri, ret>>
                    ELSE IF ~InlineDecodes(text)
                    THEN /\ IF ByteLen(text) < ExcerptLength
                            THEN pc' = "panic" /\ ret' = ret
                            ELSE pc' = "aborted" /\ ret' = "decode"
                         /\ UNCHANGED <<fi, si, deployments, di, ri>>
                    ELSE /\ deployments' = Taken(deployments, file.FileName,
                                                 BlockObject[text[1]])
                         /\ di' = Len(deployments')
                         /\ ri' = Len(deployments'[di'].Objects)
                         /\ si' = si + 1
                         /\ pc' = "loop"
                         /\ UNCHANGED <<fi, ret>>
    /\ UNCHANGED <<mode, run, req, listed, exists, tries, attempt, budget,
                   polled, calls, events, answer, logs, cluster, terminating,
                   initial, templates, bindings, contents>>
    /\ UNCHANGED collect
    /\ UNCHANGED extract

\* the older switch on the lower-cased kind
InlineDispatch == DispatchOn(InlineKinds)

\* the loops are over: return nil
InlineEnd ==
    /\ AtSection
    /\ fi > Len(contents)
    /\ ret' = ResourceResult(IF logs[run] = <<>> THEN "nil"
                             ELSE logs[run][Len(logs[run])].err)
    /\ pc' = "returned"
    /\ UNCHANGED <<deployments, mode, run, di, ri, req, listed, exists, tries,
                   attempt, budget, polled, calls, events, answer, logs,
                   cluster, terminating, initial>>
    /\ UNCHANGED parse
    /\ UNCHANGED collect
    /\ UNCHANGED extract

\* one invocation of the older command: the files are rendered, then
\* ResourceApply or ResourceDelete decodes and handles section by section
InlineNext ==
    \/ RenderFile
    \/ InlineSection
    \/ InlineDispatch
    \/ ListCall
    \/ UpdateCall
    \/ CreateCall
    \/ PollCall
    \/ DaemonsetReadyCall
    \/ DeleteCall
    \/ InlineEnd
    \/ NamespaceFinalized

InlineSpec == ParseInit /\ [][InlineNext]_vars

----------------------------------------------------------------------------
(* Another client of the same cluster.  It acts between the List of an     *)
(* apply handler and the Create or Update that follows; an update of the   *)
(* object by the other client is what makes Update answer a conflict.      *)

\* the other client creates the object the handler found missing
RemoteCreate ==
    /\ pc = "create"
    /\ Target(req) \notin cluster
    /\ NamespaceReady(Target(req).namespace)
    /\ cluster' = cluster \cup {Target(req)}
    /\ UNCHANGED <<deployments, mode, run, di, ri, pc, req, listed, exists,
                   tries, attempt, budget, polled, calls, events, answer, logs,
                   ret, terminating, initial>>
    /\ UNCHANGED parse
    /\ UNCHANGED collect
    /\ UNCHANGED extract

\* the other client deletes the object the handler found
RemoteDelete ==
    /\ pc = "update"
    /\ Target(req) \in cluster
    /\ ToLower(req.kind) # "namespace"
    /\ cluster' = cluster \ {Target(req)}
    /\ UNCHANGED <<deployments, mode, run, di, ri, pc, req, listed, exists,
                   tries, attempt, budget, polled, calls, events, answer, logs,
                   ret, terminating, initial>>
    /\ UNCHANGED parse
    /\ UNCHANGED collect
    /\ UNCHANGED extract

\* one document per invocation
ConcurrentInit ==
    /\ Init
    /\ Len(deployments) = 1
    /\ Len(deployments[1].Objects) = 1

ConcurrentNext ==
    \/ Next
    \/ RemoteCreate
    \/ RemoteDelete

ConcurrentSpec == ConcurrentInit /\ [][ConcurrentNext]_vars

----------------------------------------------------------------------------
(* The collection of the deployment files: the first loop of               *)
(* DeploymentsParse.  A path is the sequence of its elements.              *)

\* paths named on the command line
MaxArgs == 2

\* the directories of the file system and their entries, in the lexical
\* order in which filepath.Walk reads them
Children ==
    (<<"d">> :> <<"a.yaml", "b.txt", "s", "z.yml">>)
        @@ (<<"d", "s">> :> <<"c.yml", "e.json">>)
        @@ (<<"m.yaml">> :> <<"n.txt">>)

\* filepath.Ext of a path whose last element is the name
ExtTable ==
    [ name \in {"a.yaml", "m.yaml", "p.yaml"} |-> ".yaml" ]
        @@ [ name \in {"z.yml", "c.yml"} |-> ".yml" ]
        @@ [ name \in {"b.txt", "q.txt", "n.txt"} |-> ".txt" ]
        @@ ("e.json" :> ".json")
        @@ [ name \in {"d", "s", "gone"} |-> "" ]

\* filepath.Ext(path)
Ext(path) == ExtTable[path[Len(path)]]

\* os.Stat(name) succeeds and file.IsDir()
IsDir(path) == path \in DOMAIN Children

\* filepath.Walk(root, fn): the paths fn is called with, the root first,
\* every directory before its entries
RECURSIVE Walk(_)
RECURSIVE WalkEntries(_, _)
Walk(path) ==
    <<path>> \o (IF IsDir(path) THEN WalkEntries(path, Children[path]) ELSE <<>>)

WalkEntries(dir, names) ==
    IF names = <<>> THEN <<>>
    ELSE Walk(Append(dir, Head(names))) \o WalkEntries(dir, Tail(names))

\* the condition of the walk function
IsManifest(path) == Ext(path) = ".yaml" \/ Ext(path) = ".yml"

\* a collector that asks the extension of a plain file as well
Contribution_Filtered(name) ==
    SelectSeq(IF IsDir(name) THEN Walk(name) ELSE <<name>>, IsManifest)

\* what one iteration of the loop appends to fileList
Contribution(name) ==
    IF IsDir(name) THEN SelectSeq(Walk(name), IsManifest) ELSE <<name>>

\* the paths a command line is built from: directories, plain files and a
\* path that does not exist
ArgUniverse ==
    { <<"d">>, <<"d", "s">>, <<"m.yaml">>, <<"p.yaml">>, <<"q.txt">>, <<"gone">> }

CollectInit ==
    /\ ExtractIdle
    /\ paths \in UNION { [1..k -> ArgUniverse] : k \in 1..MaxArgs }
    /\ fileList = <<>>
    /\ ci = 1
    /\ pc = "collect"
    /\ templates = <<>>
    /\ bindings = <<>>
    /\ contents = <<>>
    /\ fi = 1
    /\ si = 1
    /\ deployments = <<>>
    /\ mode = "apply"
    /\ cluster = {}
    /\ initial = {}
    /\ terminating = {}
    /\ run = 1
    /\ di = 1
    /\ ri = 1
    /\ req = NsBench
    /\ listed = {}
    /\ exists = FALSE
    /\ tries = 0
    /\ attempt = 0
    /\ budget = 0
    /\ polled = <<>>
    /\ calls = <<>>
    /\ events = <<>>
    /\ answer = NoAnswer
    /\ logs = <<(<<>>), (<<>>)>>
    /\ ret = "none"

\* one iteration of the loop over c.DeploymentFiles.  The walk function
\* returns nil for every entry, so the walk returns no error.  After the
\* last path the loop over fileList reads and renders the files.
CollectPath ==
    /\ pc = "collect"
    /\ ci <= Len(paths)
    /\ fileList' = fileList \o Contribution(paths[ci])
    /\ ci' = ci + 1
    /\ pc' = IF ci < Len(paths) THEN "collect" ELSE "render"
    /\ UNCHANGED paths
    /\ UNCHANGED <<deployments, mode, run, di, ri, req, listed, exists, tries,
                   attempt, budget, polled, calls, events, answer, logs, ret,
                   cluster, terminating, initial>>
    /\ UNCHANGED parse
    /\ UNCHANGED extract

CollectNext == CollectPath

CollectSpec == CollectInit /\ [][CollectNext]_vars

----------------------------------------------------------------------------
(* The comment-argument extractor: main and writeArgs.  A comment body is  *)
(* a sequence of words; a pattern is a word followed by capture groups of  *)
(* one word each.                                                          *)

\* the capture groups of the patterns
MaxGroups == 2

\* os.Exit(78)
ExitNeutral == 78

\* the status of log.Fatalln and the status of a panic
ExitFatal == 1
ExitPanic == 2

\* what the reconciler works on; the extractor does not touch it
reconciler == <<deployments, mode, run, di, ri, req, listed, exists, tries,
                attempt, budget, polled, calls, events, answer, logs, ret,
                cluster, terminating, initial>>

\* the author associations of a comment; "nil" when the event has none
Associations == {"COLLABORATOR", "MEMBER", "OWNER", "NONE", "nil"}

\* the comment bodies
Bodies ==
    { <<>>, <<"hello">>, <<"/benchmark">>, <<"/benchmark", "v2">>,
      <<"/benchmark", "v2", "x">>, <<"please", "/benchmark", "master">> }

\* event.json: not there, not an issue comment event, or an issue comment
\* event, with or without its issue
Events ==
    { NoEvent, [NoEvent EXCEPT !.readable = TRUE] }
        \cup [readable : {TRUE}, parsable : {TRUE}, association : Associations,
              body : Bodies, hasIssue : BOOLEAN, number : {7}]

\* the patterns: the command and up to MaxGroups groups; one that does not
\* compile
Regexes == [head : {"/benchmark"}, groups : 0..MaxGroups, valid : BOOLEAN]

\* where the pattern matches in the body
MatchAt(re, body) ==
    { i \in 1..Len(body) : body[i] = re.head /\ i + re.groups <= Len(body) }

\* argRe.MatchString(body)
MatchString(re, body) == MatchAt(re, body) # {}

\* argRe.FindStringSubmatch(body): the leftmost match, then its groups
FindStringSubmatch(re, body) ==
    LET i == CHOOSE j \in MatchAt(re, body) : \A k \in MatchAt(re, body) : j <= k
    IN  <<SubSeq(body, i, i + re.groups)>>
            \o [k \in 1..re.groups |-> <<body[i + k]>>]

\* strconv.Itoa(prnumber)
Itoa(n) == <<ToString(n)>>

\* fmt.Sprintf("ARG_%d", i)
ArgName(i) == <<"ARG_", i>>

\* a loop over the whole of arglist
WriteList_All(list) == list

\* range arglist[1:]
WriteList(list) == Tail(list)

\* the associations that let the author start a benchmark
Allowed == {"COLLABORATOR", "MEMBER"}

ExtractInit ==
    /\ event \in Events
    /\ regex \in Regexes
    /\ arglist = <<>>
    /\ written = <<>>
    /\ posted = <<>>
    /\ status = -1
    /\ wi = 0
    /\ pc = "read"
    /\ paths = <<>>
    /\ fileList = <<>>
    /\ ci = 0
    /\ templates = <<>>
    /\ bindings = <<>>
    /\ contents = <<>>
    /\ fi = 0
    /\ si = 0
    /\ deployments = <<>>
    /\ mode = "apply"
    /\ cluster = {}
    /\ initial = {}
    /\ terminating = {}
    /\ run = 1
    /\ di = 1
    /\ ri = 1
    /\ req = NsBench
    /\ listed = {}
    /\ exists = FALSE
    /\ tries = 0
    /\ attempt = 0
    /\ budget = 0
    /\ polled = <<>>
    /\ calls = <<>>
    /\ events = <<>>
    /\ answer = NoAnswer
    /\ logs = <<(<<>>), (<<>>)>>
    /\ ret = "none"

\* the process ends with status n
Exit(n) == pc' = "exit" /\ status' = n

\* ioutil.ReadFile(input) and github.ParseWebHook("issue_comment", data):
\* log.Fatalln when either fails
ReadEvent ==
    /\ pc = "read"
    /\ IF event.readable /\ event.parsable
       THEN pc' = "author" /\ status' = status
       ELSE Exit(ExitFatal)
    /\ UNCHANGED <<event, regex, arglist, written, posted, wi>>
    /\ UNCHANGED reconciler
    /\ UNCHANGED parse
    /\ UNCHANGED collect

\* the test of *e.GetComment().AuthorAssociation, which panics on an event
\* without one
CheckAuthor ==
    /\ pc = "author"
    /\ IF event.association = "nil" THEN Exit(ExitPanic)
       ELSE IF event.association \notin Allowed THEN Exit(ExitNeutral)
       ELSE pc' = "match" /\ status' = status
    /\ UNCHANGED <<event, regex, arglist, written, posted, wi>>
    /\ UNCHANGED reconciler
    /\ UNCHANGED parse
    /\ UNCHANGED collect

\* prnumber = *e.GetIssue().Number, regexp.MustCompile(regex), both of which
\* may panic, then the match and groups = append(groups, Itoa(prnumber))
MatchBody ==
    /\ pc = "match"
    /\ IF ~event.hasIssue \/ ~regex.valid
       THEN Exit(ExitPanic) /\ UNCHANGED <<arglist, wi>>
       ELSE IF MatchString(regex, event.body)
       THEN /\ arglist' = Append(FindStringSubmatch(regex, event.body),
                                 Itoa(event.number))
            /\ wi' = 1
            /\ pc' = "write"
            /\ status' = status
       ELSE Exit(ExitNeutral) /\ UNCHANGED <<arglist, wi>>
    /\ UNCHANGED <<event, regex, written, posted>>
    /\ UNCHANGED reconciler
    /\ UNCHANGED parse
    /\ UNCHANGED collect

\* what ioutil.WriteFile and client.Issues.CreateComment may answer
IoResults == {"nil", "error"}

\* one iteration of the loop of writeArgs: the file is written, or
\* log.Fatalln
WriteArg ==
    /\ pc = "write"
    /\ LET list == WriteList(arglist)
       IN  \E e \in IoResults :
              IF e = "nil"
              THEN /\ written' = Append(written, [name |-> ArgName(wi - 1),
                                                  data |-> list[wi]])
                   /\ wi' = wi + 1
                   /\ pc' = IF wi < Len(list) THEN "write" ELSE "post"
                   /\ status' = status
              ELSE /\ Exit(ExitFatal)
                   /\ UNCHANGED <<written, wi>>
    /\ UNCHANGED <<event, regex, arglist, posted>>
    /\ UNCHANGED reconciler
    /\ UNCHANGED parse
    /\ UNCHANGED collect

\* releaseVersion = groups[1] and client.Issues.CreateComment; its error is
\* printed and main returns
PostComment ==
    /\ pc = "post"
    /\ \E e \in IoResults :
          posted' = IF e = "nil"
                    THEN Append(posted, [number |-> event.number,
                                         release |-> arglist[2]])
                    ELSE posted
    /\ Exit(0)
    /\ UNCHANGED <<event, regex, arglist, written, wi>>
    /\ UNCHANGED reconciler
    /\ UNCHANGED parse
    /\ UNCHANGED collect

ExtractNext ==
    \/ ReadEvent
    \/ CheckAuthor
    \/ MatchBody
    \/ WriteArg
    \/ PostComment

ExtractSpec == ExtractInit /\ [][ExtractNext]_vars

----------------------------------------------------------------------------
(* Vocabulary of the properties *)

\* the kinds the design lists as supported
ListedKinds ==
    { "namespace", "deployment", "daemonset", "service", "serviceaccount",
      "configmap", "secret", "persistentvolumeclaim", "role", "rolebinding",
      "clusterrole", "clusterrolebinding", "ingress",
      "customresourcedefinition" }

\* the kinds whose objects live outside any namespace
ClusterScopedKinds ==
    { "namespace", "clusterrole", "clusterrolebinding",
      "customresourcedefinition" }

Documents == Flatten(deployments)

\* the rank of loop position (d, r) among the documents
PosIndex(d, r) == Len(Flatten(SubSeq(deployments, 1, d - 1))) + r

InHandler == pc \in {"list", "update", "create", "poll", "dsready", "delete"}

\* the namespace the calls for document r must carry
ExpectedNamespace(r) ==
    IF ToLower(r.kind) \in ClusterScopedKinds THEN ""
    ELSE IF r.namespace = "" THEN "default" ELSE r.namespace

Ops(cs) == { cs[i].op : i \in 1..Len(cs) }

CountOp(cs, op) == Cardinality({ i \in 1..Len(cs) : cs[i].op = op })

----------------------------------------------------------------------------
(* C1: ResourceApply and ResourceDelete handle the files in the order      *)
(* given and the documents of a file in document order: the k-th handler   *)
(* to return is the one of the k-th document, every API call is issued for *)
(* the document the loops stand at, is addressed to that document's kind,  *)
(* name and namespace, and is issued only when the handlers of all earlier *)
(* documents have returned.                                                *)

C1_LogInOrder ==
    /\ \A k \in 1..2 : \A i \in 1..Len(logs[k]) :
          /\ logs[k][i].res = Documents[i]
          /\ PosIndex(logs[k][i].pos[1], logs[k][i].pos[2]) = i
    /\ InHandler => Len(logs[run]) = PosIndex(di, ri) - 1

C1_CallForCurrentDocument ==
    (calls' # calls /\ calls' # <<>>) =>
        LET c == calls'[Len(calls')]
            r == Documents[PosIndex(di, ri)]
        IN  /\ Len(logs[run]) = PosIndex(di, ri) - 1
            /\ c.kind = ToLower(r.kind)
            /\ c.name \in {r.name, ""}
            /\ c.namespace = ExpectedNamespace(r)

C1_Order == [](C1_LogInOrder) /\ [][C1_CallForCurrentDocument]_vars

\* the two-document manifest on an empty cluster: the namespace has been
\* created and its handler has returned, and the deployment is being
\* created in namespace bench
C1_Witness ==
    /\ mode = "apply"
    /\ run = 1
    /\ initial = {}
    /\ Documents = <<NsBench, DepLoadgen>>
    /\ Len(logs[1]) = 1
    /\ logs[1][1].events = <<"created">>
    /\ Len(calls) = 2
    /\ calls[2] = [op |-> "Create", kind |-> "deployment",
                   namespace |-> "bench", name |-> "loadgen", policy |-> ""]

----------------------------------------------------------------------------
(* C2: in apply mode the handler of every supported kind issues List       *)
(* first and once; it issues Update, and never Create, exactly when the    *)
(* listed items hold an item of the resource's name, and one Create, and   *)
(* never Update, exactly when they do not; a failed Update is not followed *)
(* by a Create; at most one of the lines created / updated is logged, and  *)
(* only after the call it reports.                                         *)

C2_CreateOrUpdate ==
    (mode = "apply" /\ calls # <<>>) =>
        /\ calls[1].op = "List"
        /\ CountOp(calls, "List") = 1
        /\ ToLower(req.kind) \in ListedKinds
        /\ "Update" \in Ops(calls) =>
              (req.name \in listed /\ "Create" \notin Ops(calls))
        /\ "Create" \in Ops(calls) =>
              /\ req.name \notin listed
              /\ "Update" \notin Ops(calls)
              /\ CountOp(calls, "Create") = 1
        /\ Len(calls) >= 2 =>
              calls[2].op = IF req.name \in listed THEN "Update" ELSE "Create"
        /\ pc = "update" => req.name \in listed
        /\ pc = "create" => req.name \notin listed
        /\ Len(events) <= 1
        /\ \A i \in 1..Len(events) :
              \/ events[i] = "updated" /\ "Update" \in Ops(calls)
              \/ events[i] = "created" /\ "Create" \in Ops(calls)

\* a secret that exists is updated at the second attempt, after a conflict
C2_Witness ==
    /\ mode = "apply"
    /\ ToLower(req.kind) = "secret"
    /\ req.name \in listed
    /\ Len(calls) = 3
    /\ calls[3].op = "Update"
    /\ events = <<"updated">>

----------------------------------------------------------------------------
(* C3: the same manifest applied twice to an empty cluster.  When the API  *)
(* calls of every handler succeeded, each resource - a kind, a namespace   *)
(* and a name - has exactly one line "created", logged in the first run    *)
(* where the resource stands first in the manifest, and a line "updated"   *)
(* every other time it is handled: for a repeated document of the first    *)
(* run and for every document of the second run.                           *)

\* kind, namespace and name of the remote object of document r
Identity(r) == <<ToLower(r.kind), ExpectedNamespace(r), r.name>>

\* no earlier document of the manifest names the resource of document i
FirstOccurrence(i) ==
    \A j \in 1..(i - 1) : Identity(Documents[j]) # Identity(Documents[i])

\* both runs are over and no handler reported a failed call
AppliedTwice ==
    /\ mode = "apply"
    /\ initial = {}
    /\ run = 2
    /\ pc = "returned"
    /\ \A k \in 1..2 : \A i \in 1..Len(logs[k]) :
          logs[k][i].err \in {"nil", "timeout"}

C3_Idempotent ==
    AppliedTwice =>
        /\ Len(logs[1]) = Len(Documents)
        /\ Len(logs[2]) = Len(Documents)
        /\ \A i \in 1..Len(Documents) :
              /\ logs[1][i].res = Documents[i]
              /\ logs[2][i].res = Documents[i]
              /\ logs[1][i].events =
                     IF FirstOccurrence(i) THEN <<"created">> ELSE <<"updated">>
              /\ logs[2][i].events = <<"updated">>

\* namespace and deployment, created by the first run, updated by the second
C3_Witness ==
    /\ AppliedTwice
    /\ Documents = <<NsBench, DepLoadgen>>
    /\ logs[1][2].events = <<"created">>
    /\ logs[2][2].events = <<"updated">>
    /\ logs[2][2].err = "nil"

\* the statement without the proviso on repeated documents: every document
\* is created by the first run and updated by the second
C3_CreatedThenUpdated ==
    AppliedTwice =>
        \A i \in 1..Len(Documents) :
            /\ logs[1][i].events = <<"created">>
            /\ logs[2][i].events = <<"updated">>

----------------------------------------------------------------------------
(* C4: a manifest with exactly one document of a kind that is not          *)
(* supported, at any position, and documents of supported kinds: the run   *)
(* is not cut short, the handler of every supported document runs, and     *)
(* exactly one dispatch error is reported, the one of the unsupported      *)
(* document.                                                               *)

Unsupported(r) == ToLower(r.kind) \notin ListedKinds

OneUnsupported ==
    Cardinality({ i \in 1..Len(Documents) : Unsupported(Documents[i]) }) = 1

C4_PartialFailure ==
    (mode = "apply" /\ OneUnsupported) =>
        /\ pc # "panic"
        /\ pc = "returned" =>
              /\ Len(logs[run]) = Len(Documents)
              /\ \A i \in 1..Len(Documents) :
                    (logs[run][i].err = "unimplemented")
                        <=> Unsupported(Documents[i])

----------------------------------------------------------------------------
(* C5: whatever the handlers answer, ResourceApply and ResourceDelete go   *)
(* on to the handler of every later document and return nil.               *)

C5_RunsToTheEnd ==
    /\ pc # "panic"
    /\ pc = "returned" =>
          /\ ret = "nil"
          /\ Len(logs[run]) = Len(Documents)

----------------------------------------------------------------------------
(* Handlers that returned *)

\* the handler of req has returned and the next one has not started
HandlerReturned == pc \in {"loop", "returned"} /\ logs[run] # <<>> /\ calls # <<>>

\* the record of the handler that returned last
LastRecord == logs[run][Len(logs[run])]

AllFalse(s) == \A i \in 1..Len(s) : s[i] = "false"

----------------------------------------------------------------------------
(* C6: deploymentApply and serviceApply run the readiness poll after a     *)
(* successful Update as well as after a successful Create: neither returns *)
(* nil unless its predicate answered true.                                 *)

C6_PollAfterUpdate ==
    ( /\ mode = "apply"
      /\ HandlerReturned
      /\ ToLower(req.kind) \in {"deployment", "service"}
      /\ events # <<>> ) =>
        /\ "Get" \in Ops(calls)
        /\ polled # <<>>
        /\ LastRecord.err = "nil" => polled[Len(polled)] = "true"

----------------------------------------------------------------------------
(* C7: after a successful Create or Update daemonSetApply polls            *)
(* daemonsetReady, within the bounded poller, until the daemon set reports *)
(* no unavailable pod: it returns nil only when the last answer was true,  *)
(* and gives up on the answer false only when the budget is used up.       *)

C7_DaemonSetWaits ==
    ( /\ mode = "apply"
      /\ HandlerReturned
      /\ ToLower(req.kind) = "daemonset"
      /\ events # <<>> ) =>
        /\ polled # <<>>
        /\ LastRecord.err = "nil" => polled[Len(polled)] = "true"
        /\ polled[Len(polled)] = "false" => Len(polled) = GlobalRetryCount

----------------------------------------------------------------------------
(* C8: provider.RetryUntilTrue(name, n, pred) calls pred at most n times,  *)
(* calls it again only after the answer false, returns nil at the first    *)
(* answer true, returns the error of pred at its first error, and returns  *)
(* the timeout error exactly when all n calls answered false.              *)

\* the poller has been entered by the current handler
Polling == budget > 0

C8_RetryUntilTrue ==
    Polling =>
        /\ Len(polled) = attempt
        /\ Len(polled) <= budget
        /\ AllFalse(SubSeq(polled, 1, Len(polled) - 1))
        /\ pc = "poll" => (AllFalse(polled) /\ Len(polled) < budget)
        /\ pc # "poll" =>
              /\ HandlerReturned
              /\ polled # <<>>
              /\ LastRecord.err = "nil" <=> polled[Len(polled)] = "true"
              /\ LastRecord.err \in {"get", "unknown_version"}
                     <=> polled[Len(polled)] = "error"
              /\ LastRecord.err = "timeout"
                     <=> (AllFalse(polled) /\ Len(polled) = budget)

\* a deployment whose readiness poll used up its budget
C8_Witness ==
    /\ Polling
    /\ ToLower(req.kind) = "deployment"
    /\ HandlerReturned
    /\ Len(polled) = budget
    /\ AllFalse(polled)
    /\ LastRecord.err = "timeout"

----------------------------------------------------------------------------
(* C9: after a successful Delete call namespaceDelete polls                *)
(* namespaceDeleted with a budget of 2 * GlobalRetryCount attempts, one    *)
(* Get of the namespace per attempt; it returns nil at the first Get that  *)
(* reports NotFound and the timeout error when no Get of the budget does;  *)
(* the loops stay at the namespace until the poll has ended.               *)

C9_NamespaceDeletePoll ==
    ( /\ mode = "delete"
      /\ ToLower(req.kind) = "namespace"
      /\ events # <<>> ) =>
        /\ events = <<"deleting">>
        /\ calls[1].op = "Delete"
        /\ budget = 2 * GlobalRetryCount
        /\ Len(calls) = 1 + Len(polled)
        /\ \A i \in 2..Len(calls) :
              calls[i] = [op |-> "Get", kind |-> "namespace", namespace |-> "",
                          name |-> req.name, policy |-> ""]
        /\ Len(polled) <= budget
        /\ \A i \in 1..(Len(polled) - 1) : polled[i] = "false"
        /\ pc = "poll" =>
              /\ AllFalse(polled)
              /\ Len(polled) < budget
              /\ Documents[PosIndex(di, ri)] = req
              /\ Len(logs[run]) = PosIndex(di, ri) - 1
        /\ pc # "poll" =>
              /\ HandlerReturned
              /\ LastRecord.res = req
              /\ LastRecord.err = "nil" <=> polled[Len(polled)] = "true"
              /\ LastRecord.err = "timeout"
                     <=> (AllFalse(polled) /\ Len(polled) = budget)

\* the namespace is gone at the last attempt of the budget
C9_Witness ==
    /\ mode = "delete"
    /\ ToLower(req.kind) = "namespace"
    /\ HandlerReturned
    /\ Len(polled) = 2 * GlobalRetryCount
    /\ polled[Len(polled)] = "true"
    /\ LastRecord.err = "nil"
    /\ Target(req) \notin cluster

----------------------------------------------------------------------------
(* C10: a decoded document of a supported kind whose apiVersion is not the *)
(* one its handler implements: the handler returns the error "unknown      *)
(* object version" without an API call and the run does not crash.         *)

WrongVersion(r) ==
    /\ ToLower(r.kind) \in ListedKinds
    /\ r.version # HandlerTable[ToLower(r.kind)].version

C10_UnknownVersion ==
    /\ pc # "panic"
    /\ calls # <<>> => ~WrongVersion(req)
    /\ \A k \in 1..2 : \A i \in 1..Len(logs[k]) :
          WrongVersion(logs[k][i].res) =>
              /\ logs[k][i].err = "unknown_version"
              /\ logs[k][i].events = <<>>

----------------------------------------------------------------------------
(* C11: the Update of a resource that exists is attempted at most          *)
(* DefaultRetrySteps times, every attempt with the same req; an attempt    *)
(* answered by a conflict is followed by another one while the bound is    *)
(* not reached, and ends the handler with the update error when it is; an  *)
(* attempt answered by any other error ends the handler at once with the   *)
(* update error; the first attempt that succeeds ends the update with the  *)
(* line "updated".                                                         *)

\* the Update call of the current handler, attempt after attempt the same
UpdateOfReq ==
    [op |-> "Update", kind |-> ToLower(req.kind),
     namespace |-> ExpectedNamespace(req), name |-> req.name, policy |-> ""]

C11_Attempts ==
    (mode = "apply" /\ "Update" \in Ops(calls)) =>
        /\ tries = CountOp(calls, "Update")
        /\ tries <= DefaultRetrySteps
        /\ Len(calls) = 1 + tries
        /\ \A i \in 2..Len(calls) : calls[i] = UpdateOfReq
        /\ answer.err \in {"nil", "conflict", "other"}
        /\ answer.err = "nil" =>
              /\ events = <<"updated">>
              /\ HandlerReturned
              /\ LastRecord.err = "nil"
        /\ answer.err = "conflict" =>
              /\ events = <<>>
              /\ IF tries < DefaultRetrySteps
                 THEN pc = "update"
                 ELSE HandlerReturned /\ LastRecord.err = "update"
        /\ answer.err = "other" =>
              /\ events = <<>>
              /\ HandlerReturned
              /\ LastRecord.err = "update"

\* the retried closure submits req as it is
C11_SameRequest == (pc = "update") => (req' = req)

C11_ConflictRetry == [](C11_Attempts) /\ [][C11_SameRequest]_vars

\* two conflicts, then the third attempt succeeds
C11_Witness ==
    /\ mode = "apply"
    /\ tries = 3
    /\ Len(calls) = 4
    /\ answer.err = "nil"
    /\ events = <<"updated">>

----------------------------------------------------------------------------
(* C14: every Delete call, whatever the kind, names the resource of the    *)
(* handler, is sent to the collection of its kind, and carries the         *)
(* propagation policy Foreground; Delete calls are issued by               *)
(* ResourceDelete only.                                                    *)

C14_DeleteByNameForeground ==
    \A i \in 1..Len(calls) :
        calls[i].op = "Delete" =>
            /\ mode = "delete"
            /\ ToLower(req.kind) \in ListedKinds
            /\ calls[i].kind = ToLower(req.kind)
            /\ calls[i].name = req.name
            /\ calls[i].policy = "Foreground"

\* a cluster role that exists is deleted
C14_Witness ==
    /\ mode = "delete"
    /\ ToLower(req.kind) = "clusterrole"
    /\ calls = << [op |-> "Delete", kind |-> "clusterrole", namespace |-> "",
                   name |-> "cr", policy |-> "Foreground"] >>
    /\ events = <<"deleted">>

----------------------------------------------------------------------------
(* C15: in delete mode the handler of every kind but namespace issues one  *)
(* API call, the Delete, and no Get: whatever the Delete answered, the     *)
(* handler has returned when the call is over.                             *)

C15_DeleteWithoutPoll ==
    ( /\ mode = "delete"
      /\ calls # <<>>
      /\ ToLower(req.kind) # "namespace" ) =>
        /\ Len(calls) = 1
        /\ calls[1].op = "Delete"
        /\ polled = <<>>
        /\ HandlerReturned
        /\ LastRecord.res.name = req.name
        /\ answer.err = "nil" =>
              (LastRecord.err = "nil" /\ events = <<"deleted">>)
        /\ answer.err # "nil" =>
              (LastRecord.err = "delete" /\ events = <<>>)

\* a deployment is deleted: one call, and the handler is back
C15_Witness ==
    /\ mode = "delete"
    /\ ToLower(req.kind) = "deployment"
    /\ Len(calls) = 1
    /\ answer.err = "nil"
    /\ events = <<"deleted">>
    /\ pc = "loop"

----------------------------------------------------------------------------
(* The last call of the predicate *)

\* the answer of the predicate at its last call; answer is then what the
\* Get of that call answered
LastPolled == polled[Len(polled)]

\* the replicas the manifest asks for: 1 when it leaves them unset
DesiredReplicas(r) == IF r.replicas = 0 THEN 1 ELSE r.replicas

----------------------------------------------------------------------------
(* C16: deploymentReady answers true exactly when the available replicas   *)
(* the Get reports equal the replicas of the manifest, 1 when the manifest *)
(* leaves them unset, and false for every other count, greater counts      *)
(* included.                                                               *)

C16_DeploymentReady ==
    ( /\ ToLower(req.kind) = "deployment"
      /\ polled # <<>>
      /\ answer.err = "nil" ) =>
        /\ calls[Len(calls)].op = "Get"
        /\ LastPolled \in {"true", "false"}
        /\ LastPolled = "true" <=> answer.available = DesiredReplicas(req)

\* four replicas are available where three are asked for: not ready
C16_Witness ==
    /\ ToLower(req.kind) = "deployment"
    /\ req.replicas = 3
    /\ polled # <<>>
    /\ answer.err = "nil"
    /\ answer.available = 4
    /\ LastPolled = "false"

----------------------------------------------------------------------------
(* C17: serviceExists answers true for a service of type LoadBalancer      *)
(* exactly when the Get reports at least one ingress address, and true at  *)
(* the first call, as at every call, for a service of any other type; an   *)
(* error of the Get is the error of the predicate, not the answer false.   *)

C17_ServiceExists ==
    (ToLower(req.kind) = "service" /\ polled # <<>>) =>
        /\ calls[Len(calls)].op = "Get"
        /\ (answer.err = "nil" /\ answer.svcType = "LoadBalancer") =>
              /\ LastPolled \in {"true", "false"}
              /\ LastPolled = "true" <=> answer.lbIngress > 0
        /\ (answer.err = "nil" /\ answer.svcType # "LoadBalancer") =>
              /\ LastPolled = "true"
              /\ polled = <<"true">>
        /\ answer.err # "nil" => LastPolled = "error"
        /\ req.svcType # "LoadBalancer" =>
              \A i \in 1..Len(polled) : polled[i] # "false"

\* a load balancer gets its address at the second call
C17_Witness ==
    /\ ToLower(req.kind) = "service"
    /\ req.svcType = "LoadBalancer"
    /\ polled = <<"false", "true">>
    /\ answer.lbIngress = 1
    /\ LastRecord.err = "nil"

----------------------------------------------------------------------------
(* C18: namespaceDeleted sorts the answer of the Get three ways: NotFound  *)
(* is true without error and ends the poll with nil; any other error is    *)
(* the error of the predicate and ends the poll with it; a namespace that  *)
(* is still found is false without error, and the poll goes on while its   *)
(* budget lasts.                                                           *)

C18_NamespaceDeleted ==
    ( /\ mode = "delete"
      /\ ToLower(req.kind) = "namespace"
      /\ polled # <<>> ) =>
        /\ calls[Len(calls)].op = "Get"
        /\ answer.err \in {"notfound", "other", "nil"}
        /\ answer.err = "notfound" =>
              /\ LastPolled = "true"
              /\ HandlerReturned
              /\ LastRecord.err = "nil"
        /\ answer.err = "other" =>
              /\ LastPolled = "error"
              /\ HandlerReturned
              /\ LastRecord.err = "get"
        /\ answer.err = "nil" =>
              /\ LastPolled = "false"
              /\ Len(polled) < budget => pc = "poll"

\* the namespace is still found once, then the Get fails
C18_Witness ==
    /\ mode = "delete"
    /\ ToLower(req.kind) = "namespace"
    /\ polled = <<"false", "error">>
    /\ answer.err = "other"
    /\ LastRecord.err = "get"

----------------------------------------------------------------------------
(* Properties of DeploymentsParse, checked under ParseSpec *)

\* file i names a variable that DeploymentVars does not hold
MissingPlaceholder(i) ==
    \E k \in 1..Len(templates[i].Content) :
        /\ templates[i].Content[k] \in DOMAIN Placeholder
        /\ Placeholder[templates[i].Content[k]].name \notin DOMAIN bindings

\* no request has reached the cluster and no handler has run
NothingSent ==
    /\ calls = <<>>
    /\ events = <<>>
    /\ cluster = initial
    /\ logs = <<(<<>>), (<<>>)>>

(* C12: when a file references a placeholder that has no value, rendering  *)
(* fails - at that file at the latest - and the process ends before any    *)
(* API call is made for any file, the files rendered before it included.   *)
C12_RenderingFailsFirst ==
    (\E i \in 1..Len(templates) : MissingPlaceholder(i)) =>
        /\ pc \in {"render", "fatal"}
        /\ NothingSent
        /\ deployments = <<>>
        /\ \A i \in 1..Len(templates) : MissingPlaceholder(i) => fi <= i
        /\ (pc = "fatal") => MissingPlaceholder(fi)

\* the second file fails to render after the first was rendered
C12_Witness ==
    /\ pc = "fatal"
    /\ fi = 2
    /\ Len(contents) = 1
    /\ ~MissingPlaceholder(1)
    /\ NothingSent

\* the sections of rendered file i that reach the decoder
SectionsOf(i) == Texts(contents[i].Content)

\* the sections of rendered file i that the decoder refuses
BadSections(i) ==
    { k \in 1..Len(SectionsOf(i)) : ~Decodes(SectionsOf(i)[k]) }

Undecodable(i) == BadSections(i) # {}

\* the first section of file i that the decoder refuses
FirstBadSection(i) ==
    SectionsOf(i)[CHOOSE k \in BadSections(i) : \A j \in BadSections(i) : k <= j]

\* the position of the file a batch was read from
FileIndex(b) == CHOOSE i \in 1..Len(contents) : contents[i].FileName = b.FileName

NormalisedFile(i) ==
    templates[i].Content[Len(templates[i].Content)] = "{{normalise .A}}"

\* what rendered file i holds in the place of the helper's call
HelperOutput(i) ==
    SubSeq(contents[i].Content, Len(templates[i].Content),
           Len(contents[i].Content))

(* C19: the template helper replaces every '.' of its argument by '-' and  *)
(* leaves every other character as it is: its output has the length of the *)
(* argument, holds no '.', and is left unchanged by a second application;   *)
(* "a.b.c" becomes "a-b-c".                                                 *)
C19_Normalise ==
    /\ Normalise(<<"a", ".", "b", ".", "c">>) = <<"a", "-", "b", "-", "c">>
    /\ \A i \in 1..Len(contents) :
           NormalisedFile(i) =>
               LET x == bindings["A"]
                   y == HelperOutput(i)
               IN  /\ Len(y) = Len(x)
                   /\ \A j \in 1..Len(x) :
                          y[j] = IF x[j] = "." THEN "-" ELSE x[j]
                   /\ \A j \in 1..Len(y) : y[j] # "."
                   /\ Normalise(y) = y

\* a file that applies the helper to "a.b.c" has been rendered
C19_Witness ==
    \E i \in 1..Len(contents) :
        /\ NormalisedFile(i)
        /\ bindings["A"] = <<"a", ".", "b", ".", "c">>
        /\ contents[i].Content = <<"D", "a", "-", "b", "-", "c">>

\* the lines of a text
Lines(content) == Split(content, <<NL>>)

\* the lines of a text that hold the separator and nothing else
SeparatorLines(content) ==
    { k \in 1..Len(Lines(content)) : Lines(content)[k] = Separator }

(* C20: a rendered file is cut into documents at the lines that are        *)
(* exactly '---' and nowhere else: it yields one piece more than it has    *)
(* such lines, so a '---' inside a longer line cuts nothing.               *)
C20_SplitAtSeparatorLines ==
    \A i \in 1..Len(contents) :
        Len(Split(contents[i].Content, Separator))
            = 1 + Cardinality(SeparatorLines(contents[i].Content))

\* the lines of a text gathered into the sections that the separator lines
\* part; cur is the section being gathered
RECURSIVE Gather(_, _)
Gather(lines, cur) ==
    IF lines = <<>> THEN <<cur>>
    ELSE IF Head(lines) = Separator
         THEN <<cur>> \o Gather(Tail(lines), <<>>)
         ELSE Gather(Tail(lines), cur \o Head(lines) \o <<NL>>)

\* the non-blank sections of rendered file i, parted at the separator lines
NonBlankSections(i) ==
    LET all == Gather(Lines(contents[i].Content), <<>>)
    IN  SelectSeq([k \in 1..Len(all) |-> TrimSpace(all[k])], NonEmpty)

\* DeploymentsParse is through with file i
Parsed(i) ==
    /\ pc \notin {"render", "fatal"}
    /\ (pc \in {"decode", "aborted", "panic"}) => fi > i

\* the resources obtained from file i
ObjectsOf(i) ==
    LET b == { k \in 1..Len(deployments) :
                   deployments[k].FileName = contents[i].FileName }
    IN  IF b = {} THEN <<>> ELSE deployments[CHOOSE k \in b : TRUE].Objects

(* C21: blank sections are skipped without error.  When every non-blank    *)
(* section of a file decodes, the parse does not fail at that file and the *)
(* file yields the objects of its non-blank sections, in document order -  *)
(* none, and so no API call, when every section is blank.                  *)
C21_BlankSectionsSkipped ==
    \A i \in 1..Len(contents) :
        (\A k \in 1..Len(NonBlankSections(i)) : Decodes(NonBlankSections(i)[k])) =>
            /\ (pc \in {"aborted", "panic"}) => fi # i
            /\ Parsed(i) =>
                   ObjectsOf(i) = [k \in 1..Len(NonBlankSections(i)) |->
                                       BlockObject[NonBlankSections(i)[k][1]]]

----------------------------------------------------------------------------
(* Properties of the handlers, continued *)

\* the kinds whose handlers do not touch the namespace of the resource
UndefaultedKinds == { "namespace", "clusterrole", "clusterrolebinding" }

----------------------------------------------------------------------------
(* Properties of the collection of the files, checked under CollectSpec *)

\* the recursive walks of the directories, entry by entry
WalkOrder ==
    (<<"d">> :> << <<"d">>, <<"d", "a.yaml">>, <<"d", "b.txt">>, <<"d", "s">>,
                   <<"d", "s", "c.yml">>, <<"d", "s", "e.json">>,
                   <<"d", "z.yml">> >>)
        @@ (<<"d", "s">> :> << <<"d", "s">>, <<"d", "s", "c.yml">>,
                              <<"d", "s", "e.json">> >>)
        @@ (<<"m.yaml">> :> << <<"m.yaml">>, <<"m.yaml", "n.txt">> >>)

\* the extension of the path is .yaml or .yml
YamlOrYml(path) == ExtTable[path[Len(path)]] \in {".yaml", ".yml"}

\* what the argument a is to contribute
Expected(a) ==
    IF a \in DOMAIN WalkOrder THEN SelectSeq(WalkOrder[a], YamlOrYml) ELSE <<a>>

\* the contributions of the first n arguments, in argument order
RECURSIVE ExpectedList(_)
ExpectedList(n) ==
    IF n = 0 THEN <<>> ELSE ExpectedList(n - 1) \o Expected(paths[n])

(* C23: the collector keeps the order of its arguments; a directory        *)
(* contributes the entries of its recursive walk whose extension is .yaml  *)
(* or .yml, in walk order, and nothing else; any other argument            *)
(* contributes itself, once, whatever its extension; the list is a         *)
(* function of the arguments and the file system.                          *)
C23_Collector ==
    (pc \in {"collect", "render"} /\ ci >= 1) =>
        fileList = ExpectedList(ci - 1)

\* a directory with a nested directory, then a plain file without manifest
\* extension, were collected
C23_Witness ==
    /\ pc = "render"
    /\ paths = << <<"d">>, <<"q.txt">> >>
    /\ fileList = << <<"d", "a.yaml">>, <<"d", "s", "c.yml">>, <<"d", "z.yml">>,
                     <<"q.txt">> >>

----------------------------------------------------------------------------
(* Properties of the polls, continued *)

\* the poll of the handler that returned last ended without success
PollFailed ==
    /\ Polling
    /\ HandlerReturned
    /\ LastRecord.err # "nil"

\* the attempts a poll is allowed: twice as many for the namespace deletion
MaxAttempts == IF mode = "delete" THEN 2 * GlobalRetryCount ELSE GlobalRetryCount

(* C24, as stated: a poll that ends without success has called its         *)
(* predicate exactly maxAttempts times (2 * maxAttempts for the deletion   *)
(* of a namespace).                                                        *)
C24_OnlyExhaustion ==
    PollFailed => CountOp(calls, "Get") = MaxAttempts

(* C24, amended: a poll of deploymentApply, serviceApply or namespaceDelete *)
(* ends without success in one of two ways.  Either its budget is used up: *)
(* the predicate was called exactly maxAttempts times (2 * maxAttempts for *)
(* the deletion of a namespace) and answered false each time.  Or the      *)
(* predicate returned an error - its Get failed -: the poll returns that   *)
(* error at once, after at most that many calls, all earlier ones having   *)
(* answered false.                                                         *)
C24_ExhaustionOrError ==
    PollFailed =>
        /\ ToLower(req.kind) \in {"deployment", "service", "namespace"}
        /\ CountOp(calls, "Get") = Len(polled)
        /\ AllFalse(SubSeq(polled, 1, Len(polled) - 1))
        /\ \/ /\ LastRecord.err = "timeout"
              /\ LastPolled = "false"
              /\ Len(polled) = MaxAttempts
           \/ /\ LastRecord.err = "get"
              /\ LastPolled = "error"
              /\ answer.err \notin {"nil", "none"}
              /\ Len(polled) \in 1..MaxAttempts

\* the first Get of a readiness poll failed: the poll is over after one
\* call of a budget of more
C24_Witness ==
    /\ PollFailed
    /\ mode = "apply"
    /\ LastRecord.err = "get"
    /\ Len(polled) = 1
    /\ MaxAttempts > 1

----------------------------------------------------------------------------
(* Properties under another client's changes, checked under ConcurrentSpec *)

\* the handler that returned last failed at its Create or Update although
\* the remote side was reachable
ApplyFailedAtWrite ==
    /\ mode = "apply"
    /\ HandlerReturned
    /\ LastRecord.err \in {"create", "update"}
    /\ answer.err # "other"

(* C25: whatever another client does to the object between the List of an *)
(* apply handler and its Create or Update, the handler stores the desired  *)
(* spec or fails only after it has used up the conflict retries.           *)
C25_RaceHandled ==
    ApplyFailedAtWrite => tries = DefaultRetrySteps

----------------------------------------------------------------------------
(* Properties of the update path, continued *)

(* C26: a conflict on update is resolved by reading again: between an      *)
(* Update that met a conflict and the Update that follows it the handler   *)
(* reads the remote object, so no Update follows an Update directly.       *)
C26_RereadAfterConflict ==
    \A i \in 1..(Len(calls) - 1) :
        calls[i].op = "Update" => calls[i + 1].op \in {"Get", "List"}

----------------------------------------------------------------------------
(* Properties of the existence test *)

\* the remote object an apply of req is about
Wanted ==
    [kind |-> ToLower(req.kind), namespace |-> ExpectedNamespace(req),
     name |-> req.name]

\* an object of the kind and name of req in another namespace
Namesake(o) ==
    /\ o.kind = ToLower(req.kind)
    /\ o.name = req.name
    /\ o.namespace # ExpectedNamespace(req)

(* C27: the existence test of an apply looks only at the namespace of the  *)
(* resource: the update path is taken only if the object is there in that  *)
(* namespace, whatever namesakes other namespaces hold; every call of the  *)
(* handler addresses that namespace, and none for a namespace, cluster     *)
(* role, cluster role binding or custom resource definition.               *)
C27_ScopedToNamespace ==
    (mode = "apply" /\ calls # <<>>) =>
        /\ \A i \in 1..Len(calls) : calls[i].namespace = ExpectedNamespace(req)
        /\ ToLower(req.kind) \in ClusterScopedKinds =>
               \A i \in 1..Len(calls) : calls[i].namespace = ""
        /\ exists => Wanted \in cluster
        /\ (pc \in {"create", "update"}) => (exists <=> Wanted \in cluster)
        /\ \A n \in listed : [Wanted EXCEPT !.name = n] \in cluster

\* a namesake in another namespace is there and the handler is about to
\* create the object
C27_Witness ==
    /\ mode = "apply"
    /\ pc = "create"
    /\ ~exists
    /\ \E o \in cluster : Namesake(o)
    /\ Wanted \notin cluster

----------------------------------------------------------------------------
(* Properties of DeploymentsParse, continued *)

\* DeploymentsParse has ended at a section of file i that does not decode
EndedAt(i) ==
    /\ pc \in {"aborted", "panic"}
    /\ fi = i
    /\ Undecodable(i)

(* C28: whatever the length of a section that fails to decode - shorter    *)
(* than 100 bytes included -, DeploymentsParse returns the wrapped decode  *)
(* error; building its message does not crash the run.                     *)
C28_DecodeErrorReturned ==
    \A i \in 1..Len(contents) :
        EndedAt(i) => (pc = "aborted" /\ ret = "decode")

----------------------------------------------------------------------------
(* Properties of the List of an apply handler *)

\* the List of the current handler was answered with an error
ListErrored == calls # <<>> /\ calls[1].op = "List" /\ Len(calls) = 1
                   /\ answer.err = "other"

(* C29: when the List of an apply handler fails, the handler returns that  *)
(* error as the error of the resource; it issues no Create, no Update and  *)
(* no readiness Get for the resource and leaves the remote state as it     *)
(* was.                                                                    *)
C29_AfterList ==
    (mode = "apply" /\ HandlerReturned /\ LastRecord.err = "list") =>
        /\ Ops(calls) = {"List"}
        /\ Len(calls) = 1
        /\ events = <<>>
        /\ polled = <<>>
        /\ tries = 0

C29_ListStep ==
    (pc = "list" /\ answer'.err = "other") =>
        /\ pc' = "loop"
        /\ Len(logs'[run]) = Len(logs[run]) + 1
        /\ logs'[run][Len(logs'[run])].err = "list"
        /\ logs'[run][Len(logs'[run])].res = CurrentResource
        /\ cluster' = cluster
        /\ terminating' = terminating

C29_ListError == [](C29_AfterList) /\ [][C29_ListStep]_vars

\* the List of the second document fails after the first was created
C29_Witness ==
    /\ mode = "apply"
    /\ HandlerReturned
    /\ ListErrored
    /\ LastRecord.err = "list"
    /\ Len(logs[run]) = 2
    /\ logs[run][1].err = "nil"

----------------------------------------------------------------------------
(* Properties of the dispatch *)

\* the loop is at a document and takes it up in this step
TakesUp == pc = "loop" /\ di <= Len(deployments) /\ logs' # logs

(* C30: the dispatch matches the lower-cased kind against the table of the *)
(* fourteen kinds.  A document of a kind of the table is never reported as *)
(* unimplemented; a document of any other kind is, it causes no API call,  *)
(* in apply mode and in delete mode, and the remote state is left as it    *)
(* was.                                                                    *)
C30_Table ==
    /\ SupportedKinds = ListedKinds
    /\ Cardinality(SupportedKinds) = 14
    /\ \A i \in 1..Len(logs[run]) :
           logs[run][i].err = "unimplemented" <=> Unsupported(logs[run][i].res)
    /\ InHandler => ~Unsupported(req)

C30_OtherKind ==
    (TakesUp /\ Unsupported(CurrentResource)) =>
        /\ calls' = <<>>
        /\ events' = <<>>
        /\ pc' = "loop"
        /\ logs'[run][Len(logs'[run])].res = CurrentResource
        /\ logs'[run][Len(logs'[run])].err = "unimplemented"
        /\ cluster' = cluster
        /\ terminating' = terminating

C30_Dispatch == [](C30_Table) /\ [][C30_OtherKind]_vars

\* in delete mode a document of another kind was passed over after the
\* first document was deleted
C30_Witness ==
    /\ mode = "delete"
    /\ pc = "loop"
    /\ Len(logs[run]) = 2
    /\ logs[run][1].err = "nil"
    /\ Unsupported(logs[run][2].res)
    /\ logs[run][2].err = "unimplemented"
    /\ calls = <<>>

----------------------------------------------------------------------------
(* Properties of the deletion of a namespace *)

\* the handler at work is namespaceDelete
NamespaceDeleteAtWork == mode = "delete" /\ ToLower(req.kind) = "namespace"

\* the record of the i-th document of a run, for a namespace
NamespaceRecord(n, i) ==
    /\ i <= Len(logs[n])
    /\ ToLower(logs[n][i].res.kind) = "namespace"

(* C31: namespaceDelete polls only after a Delete that succeeded.  A Get  *)
(* of the handler follows one Delete that answered nil; a Delete that     *)
(* answered an error, NotFound for an absent namespace included, ends the *)
(* handler with that error after this one call, no Get issued.  When the  *)
(* first run confirmed that a namespace is gone, the second run on the    *)
(* same batches reports the Delete error for it.                          *)
C31_PollOnlyAfterDelete ==
    /\ (NamespaceDeleteAtWork /\ (pc = "poll" \/ "Get" \in Ops(calls))) =>
           /\ calls[1].op = "Delete"
           /\ CountOp(calls, "Delete") = 1
           /\ events = <<"deleting">>
    /\ (NamespaceDeleteAtWork /\ HandlerReturned /\ LastRecord.err = "delete") =>
           /\ Len(calls) = 1
           /\ calls[1].op = "Delete"
           /\ polled = <<>>
           /\ budget = 0
           /\ events = <<>>
    /\ \A i \in 1..Len(logs[2]) :
           (mode = "delete" /\ NamespaceRecord(1, i) /\ logs[1][i].err = "nil") =>
               logs[2][i].err = "delete"

C31_DeleteOfAbsent ==
    (pc = "delete" /\ NamespaceDeleteAtWork /\ calls' # calls
        /\ (Target(req) \notin cluster \/ answer'.err # "nil")) =>
        /\ pc' = "loop"
        /\ Len(calls') = 1
        /\ polled' = <<>>
        /\ budget' = 0
        /\ Len(logs'[run]) = Len(logs[run]) + 1
        /\ logs'[run][Len(logs'[run])].err = "delete"
        /\ cluster' = cluster
        /\ terminating' = terminating

C31_DeleteFirst == [](C31_PollOnlyAfterDelete) /\ [][C31_DeleteOfAbsent]_vars

\* the second run finds the namespace gone that the first run deleted:
\* Delete answers NotFound and the handler returns without a Get
C31_Witness ==
    /\ run = 2
    /\ NamespaceDeleteAtWork
    /\ HandlerReturned
    /\ NamespaceRecord(1, Len(logs[2]))
    /\ logs[1][Len(logs[2])].err = "nil"
    /\ LastRecord.err = "delete"
    /\ answer.err = "notfound"
    /\ Ops(calls) = {"Delete"}

----------------------------------------------------------------------------
(* Termination and the number of API calls *)

\* the command has returned, or the process has ended in a panic
Terminated == pc \in {"returned", "panic"}

(* C32: ResourceApply and ResourceDelete terminate when every API call    *)
(* returns.  A handler issues at most one List, at most one Create or at  *)
(* most DefaultRetrySteps Updates and never both, at most one Delete, and *)
(* at most GlobalRetryCount Gets, twice as many when it deletes a         *)
(* namespace; and every run ends.                                         *)
C32_CallsBounded ==
    /\ CountOp(calls, "List") <= 1
    /\ CountOp(calls, "Create") <= 1
    /\ CountOp(calls, "Update") <= DefaultRetrySteps
    /\ CountOp(calls, "Create") = 0 \/ CountOp(calls, "Update") = 0
    /\ CountOp(calls, "Delete") <= 1
    /\ CountOp(calls, "Get") <= MaxAttempts
    /\ mode = "apply" => CountOp(calls, "Delete") = 0
    /\ mode = "delete" => Ops(calls) \subseteq {"Delete", "Get"}
    /\ tries <= DefaultRetrySteps
    /\ attempt <= MaxAttempts
    /\ di <= Len(deployments) + 1

C32_Terminates == [](C32_CallsBounded) /\ <>[]Terminated

\* a run has ended whose last handler used up every poll of the namespace
\* deletion
C32_Witness ==
    /\ pc = "returned"
    /\ mode = "delete"
    /\ CountOp(calls, "Delete") = 1
    /\ CountOp(calls, "Get") = 2 * GlobalRetryCount
    /\ LastRecord.err = "timeout"

----------------------------------------------------------------------------
(* What a run leaves alone *)

\* the remote object document r names
NamedBy(r) ==
    [kind |-> ToLower(r.kind), namespace |-> ExpectedNamespace(r), name |-> r.name]

\* a document of the batches names the remote object o
IsNamed(o) == \E i \in 1..Len(Documents) : o = NamedBy(Documents[i])

\* the calls that change the remote state
Mutating == {"Create", "Update", "Delete"}

\* the object a call addresses
Addressed(c) == [kind |-> c.kind, namespace |-> c.namespace, name |-> c.name]

\* the call issued in this step fits the mode and, when it changes the
\* remote state, addresses what a document of the batches names
CallWithinBatches ==
    (calls' # calls /\ calls' # <<>>) =>
        LET c == calls'[Len(calls')]
        IN  /\ mode = "apply" => c.op \in {"List", "Create", "Update", "Get"}
            /\ mode = "delete" => c.op \in {"Delete", "Get"}
            /\ c.op \in Mutating => IsNamed(Addressed(c))

\* an object inside a namespace that the batches name and a run deleted
InsideDeletedNamespace(o) ==
    /\ mode = "delete"
    /\ NamespaceObject(o.namespace) \in terminating
    /\ IsNamed(NamespaceObject(o.namespace))

C33_FrameStep ==
    cluster' # cluster =>
        /\ \A o \in cluster' \ cluster : IsNamed(o)
        /\ \A o \in cluster \ cluster' : IsNamed(o) \/ InsideDeletedNamespace(o)
        /\ mode = "apply" => cluster \subseteq cluster'
        /\ mode = "delete" => cluster' \subseteq cluster

----------------------------------------------------------------------------
(* The two versions of the reconciler *)

\* every file has been rendered
Rendered == pc \notin {"render", "fatal"} /\ Len(contents) = Len(templates)

\* what the later DeploymentsParse builds from the rendered files
RECURSIVE BatchesOf(_)
BatchesOf(cs) ==
    IF cs = <<>> THEN <<>>
    ELSE LET d == DecodeSections(Texts(Head(cs).Content))
         IN  (IF Len(d.objects) > 0
              THEN <<Batch(Head(cs).FileName, d.objects)>> ELSE <<>>)
                 \o BatchesOf(Tail(cs))

\* the later DeploymentsParse fails: a section of a file does not decode
ParseFails ==
    \E i \in 1..Len(contents) :
        DecodeSections(Texts(contents[i].Content)).err # "nil"

\* a section of a file is a custom resource definition
HasCrd ==
    \E i \in 1..Len(contents) :
        \E k \in 1..Len(Texts(contents[i].Content)) :
            /\ Decodes(Texts(contents[i].Content)[k])
            /\ BlockObject[Texts(contents[i].Content)[k][1]] = CrdPlain

\* the documents the later ResourceApply and ResourceDelete walk through
LaterDocuments == Flatten(BatchesOf(contents))

\* the input on which the versions are compared
WellFormed == Rendered /\ ~ParseFails /\ ~HasCrd

(* C34: on rendered files in which every non-blank section decodes and    *)
(* none is a custom resource definition, the older reconciler hands to    *)
(* the handlers, which are the same in both versions, the documents the   *)
(* later one walks through, in the same order and grouped by the same     *)
(* files: it does not stop at a section, every handler it enters is the   *)
(* one of the next of those documents and every call it issues addresses  *)
(* that document, and when it returns it has handled them all.  It stops  *)
(* at a section only when the later parse fails or a section is a custom  *)
(* resource definition.                                                   *)
C34_SameDocuments ==
    /\ WellFormed =>
          /\ pc \notin {"aborted", "panic"}
          /\ Len(Flatten(deployments)) <= Len(LaterDocuments)
          /\ Flatten(deployments)
                 = SubSeq(LaterDocuments, 1, Len(Flatten(deployments)))
          /\ \A k \in 1..Len(logs[run]) : logs[run][k].res = LaterDocuments[k]
          /\ InHandler =>
                 /\ Len(Flatten(deployments)) = Len(logs[run]) + 1
                 /\ req = DefaultNamespace(LaterDocuments[Len(logs[run]) + 1],
                                           ToLower(req.kind))
          /\ pc = "returned" =>
                 /\ deployments = BatchesOf(contents)
                 /\ Len(logs[run]) = Len(LaterDocuments)
    /\ (Rendered /\ pc \in {"aborted", "panic"}) => (ParseFails \/ HasCrd)

C34_SameCall ==
    (WellFormed /\ calls' # calls /\ calls' # <<>>) =>
        LET c == calls'[Len(calls')]
            r == LaterDocuments[Len(logs[run]) + 1]
        IN  /\ c.kind = ToLower(r.kind)
            /\ c.name \in {r.name, ""}
            /\ c.namespace = ExpectedNamespace(r)

C34_VersionsAgree == [](C34_SameDocuments) /\ [][C34_SameCall]_vars

\* the older reconciler has returned from two files, one of them with a
\* blank section, whose three documents it handled one by one
C34_Witness ==
    /\ WellFormed
    /\ pc = "returned"
    /\ Len(contents) = 2
    /\ \E i \in 1..2 : Len(Split(contents[i].Content, Separator))
                           > Len(Texts(contents[i].Content))
    /\ Len(deployments) = 2
    /\ Len(logs[run]) = 3
    /\ deployments = BatchesOf(contents)

----------------------------------------------------------------------------
(* Properties of the comment-argument extractor *)

\* the event is an issue comment of a collaborator or member whose body
\* matches the pattern
StartsBenchmark ==
    /\ event.readable
    /\ event.parsable
    /\ event.association \in Allowed
    /\ regex.valid
    /\ MatchString(regex, event.body)

\* the capture groups of the match, then the number of the pull request
Arguments ==
    [k \in 1..regex.groups |-> FindStringSubmatch(regex, event.body)[k + 1]]
        \o <<Itoa(event.number)>>

\* the extractor has exited
Exited == pc = "exit"

(* C35: the extractor writes an ARG_ file or posts the comment only for an *)
(* issue comment of a COLLABORATOR or MEMBER whose body matches the        *)
(* pattern.  In every other case it exits with a status other than 0, 78   *)
(* for another author and for a body that does not match, and has written *)
(* no file and posted no comment.  The files are ARG_0, ARG_1, ... and     *)
(* hold the capture groups in order, the whole match left out, and then    *)
(* the number of the pull request; the comment is posted after all of them *)
(* are written.                                                            *)
C35_Extractor ==
    /\ (written # <<>> \/ posted # <<>>) => StartsBenchmark
    /\ (Exited /\ ~StartsBenchmark) =>
           /\ status # 0
           /\ written = <<>>
           /\ posted = <<>>
    /\ (Exited /\ event.readable /\ event.parsable
            /\ event.association \notin Allowed \cup {"nil"}) =>
           status = ExitNeutral
    /\ (Exited /\ event.readable /\ event.parsable /\ event.hasIssue
            /\ event.association \in Allowed /\ regex.valid
            /\ ~MatchString(regex, event.body)) =>
           status = ExitNeutral
    /\ \A k \in 1..Len(written) :
           written[k] = [name |-> ArgName(k - 1), data |-> Arguments[k]]
    /\ Len(written) <= regex.groups + 1
    /\ (pc = "post" \/ posted # <<>> \/ (Exited /\ status = 0)) =>
           /\ Len(written) = regex.groups + 1
           /\ written[Len(written)].data = Itoa(event.number)
    /\ Len(posted) <= 1

\* a member's comment matched a pattern of two groups: three files were
\* written, the last with the number, and the comment was posted
C35_Witness ==
    /\ Exited
    /\ status = 0
    /\ event.association = "MEMBER"
    /\ regex.groups = 2
    /\ Len(written) = 3
    /\ written[1].data = <<"v2">>
    /\ written[3] = [name |-> ArgName(2), data |-> Itoa(7)]
    /\ Len(posted) = 1

====
